---- MODULE Spec2Model ----
(***************************************************************************)
(* gotyper: inference of Go struct definitions from a JSON sample.         *)
(*                                                                         *)
(* The model follows internal/analyzer/analyzer.go.  Go strings are        *)
(* sequences of one-character strings, so that the naming functions        *)
(* (ToCamel, singularize, generateUniqueStructName) and the number and     *)
(* timestamp classifiers work on the text as the code does.                *)
(*                                                                         *)
(* An Analyzer is the record [structNames, structs, imports].  The         *)
(* recursive descent of Analyze threads that record through every call.    *)
(* The one place where the Go code iterates over a map without sorting     *)
(* its keys (createMergedStructDef, nestedObjectFields) is a               *)
(* nondeterministic choice: every analysis operator returns the SET of     *)
(* outcomes [ti, an] (or [sd, an]) over all iteration orders.              *)
(***************************************************************************)
EXTENDS Integers, Sequences, FiniteSets, TLC

\* The analysis of one document by the two Analyzers.
VARIABLES doc, rootName, unixTimestampsAsTime, analyzers, calls, ret, failed, args

\* A call of singularize: its argument and its result.
VARIABLES word, singularized

\* Analyze runs taken step by step: for each Analyzer, where its run stands.
VARIABLES runs
\* The conversion of one schema: the schema and the root name given, the
\* Converter, what Convert returned and whether it returned an error.
VARIABLES schemaDoc, convertName, converter, converted, convertFailed
analyzerVars == <<doc, rootName, unixTimestampsAsTime, analyzers, calls, ret, failed, args>>

singularVars == <<word, singularized>>

runVars == <<runs>>
converterVars == <<schemaDoc, convertName, converter, converted, convertFailed>>

\* GenerateStructs: the structs of the result it is given, the struct
\* declarations of the code it returns, and whether it has returned.
VARIABLES catalog, code, generated
genVars == <<catalog, code, generated>>

\* The command-line run: the flags, the position of main, the stages begun so
\* far, whether an input source was read, whether the generated code was
\* written, the number of error messages printed and the exit status.
VARIABLES cliFlags, pc, stages, inputRead, codeWritten, messages, exitCode
cliVars == <<cliFlags, pc, stages, inputRead, codeWritten, messages, exitCode>>

\* Convert call by call: the definitions of the schema, the calls of
\* convertObject under way, the cache of resolveRef and how Convert ended.
VARIABLES defs, frames, resolvedRefs, outcome
stepVars == <<defs, frames, resolvedRefs, outcome>>

otherVars == <<genVars, cliVars, stepVars>>
vars == <<analyzerVars, singularVars, runVars, converterVars, otherVars>>

----------------------------------------------------------------------------
(* Characters and strings                                                  *)

LowerChars == <<"a","b","c","d","e","f","g","h","i","j","k","l","m",
                "n","o","p","q","r","s","t","u","v","w","x","y","z">>
UpperChars == <<"A","B","C","D","E","F","G","H","I","J","K","L","M",
                "N","O","P","Q","R","S","T","U","V","W","X","Y","Z">>
DigitChars == <<"0","1","2","3","4","5","6","7","8","9">>

Range(s) == {s[i] : i \in DOMAIN s}

IsLow(c) == c \in Range(LowerChars)
IsCap(c) == c \in Range(UpperChars)
IsNum(c) == c \in Range(DigitChars)

IndexIn(c, s) == CHOOSE i \in DOMAIN s : s[i] = c

ToUpperCh(c) == IF IsLow(c) THEN UpperChars[IndexIn(c, LowerChars)] ELSE c
ToLowerCh(c) == IF IsCap(c) THEN LowerChars[IndexIn(c, UpperChars)] ELSE c

ToLower(s) == [i \in DOMAIN s |-> ToLowerCh(s[i])]

HasSuffix(s, suf) ==
  /\ Len(s) >= Len(suf)
  /\ SubSeq(s, Len(s) - Len(suf) + 1, Len(s)) = suf

\* s[:len(s)-n]
DropLast(s, n) == SubSeq(s, 1, Len(s) - n)

\* Lexicographic order of Go strings (bytes compared by code point), as used
\* by sort.Strings.  CharCode lists the characters of the model in ASCII order.
AsciiOrder == <<"-", ".">> \o DigitChars \o <<":">> \o UpperChars \o <<"_">> \o LowerChars

CharCode(c) == IndexIn(c, AsciiOrder)

RECURSIVE StrLess(_, _)
StrLess(s, t) ==
  IF t = <<>> THEN FALSE
  ELSE IF s = <<>> THEN TRUE
  ELSE IF s[1] = t[1] THEN StrLess(Tail(s), Tail(t))
  ELSE CharCode(s[1]) < CharCode(t[1])

\* sort.Strings(keys): the keys of a set in ascending order.
RECURSIVE SortStrings(_)
SortStrings(S) ==
  IF S = {} THEN <<>>
  ELSE LET m == CHOOSE k \in S : \A o \in S \ {k} : StrLess(k, o)
       IN <<m>> \o SortStrings(S \ {m})

\* The orders of the elements of s.
Arrangements(s) ==
  { [i \in DOMAIN s |-> s[p[i]]] :
      p \in { q \in [DOMAIN s -> DOMAIN s] : \A i, j \in DOMAIN s : i # j => q[i] # q[j] } }

\* fmt.Sprintf("%d", n) for n >= 0.
RECURSIVE Itoa(_)
Itoa(n) ==
  IF n < 10 THEN <<DigitChars[n + 1]>>
  ELSE Itoa(n \div 10) \o <<DigitChars[(n % 10) + 1]>>

----------------------------------------------------------------------------
(* Naming: strcase.ToCamel as called by Config.GetFieldName, singularize   *)

\* One step of the loop of strcase.ToCamel over the bytes of s; st is
\* [out, capNext, prevIsCap], i the index of v (1-based).
ToCamelStep(st, v, i) ==
  LET w == IF st.capNext THEN ToUpperCh(v)
           ELSE IF i = 1 THEN ToLowerCh(v)
           ELSE IF st.prevIsCap /\ IsCap(v) THEN ToLowerCh(v)
           ELSE v
  IN IF IsCap(v) \/ IsLow(v)
       THEN [out |-> Append(st.out, w), capNext |-> FALSE, prevIsCap |-> IsCap(v)]
     ELSE IF IsNum(v)
       THEN [out |-> Append(st.out, v), capNext |-> TRUE, prevIsCap |-> FALSE]
     ELSE [out |-> st.out, capNext |-> v \in {"_", " ", "-", "."}, prevIsCap |-> FALSE]

RECURSIVE ToCamelFrom(_, _, _)
ToCamelFrom(s, i, st) ==
  IF i > Len(s) THEN st.out
  ELSE ToCamelFrom(s, i + 1, ToCamelStep(st, s[i], i))

ToCamel(s) == ToCamelFrom(s, 1, [out |-> <<>>, capNext |-> TRUE, prevIsCap |-> FALSE])

\* Config.GetFieldName under the default configuration (no field mapping,
\* PascalCaseFields = true).
GetFieldName(jsonKey) == ToCamel(jsonKey)

knownSingulars ==
  { <<<<"s","e","r","i","e","s">>, <<"s","e","r","i","e","s">>>>,
    <<<<"s","t","a","t","u","s">>, <<"s","t","a","t","u","s">>>>,
    <<<<"a","n","a","l","y","s","i","s">>, <<"a","n","a","l","y","s","i","s">>>>,
    <<<<"s","p","e","c","i","e","s">>, <<"s","p","e","c","i","e","s">>>>,
    <<<<"n","e","w","s">>, <<"n","e","w","s">>>>,
    <<<<"g","o","o","d","s">>, <<"g","o","o","d","s">>>>,
    <<<<"c","h","i","l","d","r","e","n">>, <<"c","h","i","l","d">>>>,
    <<<<"p","e","o","p","l","e">>, <<"p","e","r","s","o","n">>>>,
    <<<<"m","e","n">>, <<"m","a","n">>>>,
    <<<<"w","o","m","e","n">>, <<"w","o","m","a","n">>>>,
    <<<<"t","e","e","t","h">>, <<"t","o","o","t","h">>>>,
    <<<<"f","e","e","t">>, <<"f","o","o","t">>>>,
    <<<<"m","i","c","e">>, <<"m","o","u","s","e">>>>,
    <<<<"g","e","e","s","e">>, <<"g","o","o","s","e">>>>,
    <<<<"d","a","t","a">>, <<"d","a","t","a">>>>,
    <<<<"m","e","d","i","a">>, <<"m","e","d","i","a">>>>,
    <<<<"a","d","d","r","e","s","s","e","s">>, <<"a","d","d","r","e","s","s">>>> }

singularize(plural) ==
  LET lowerPlural == ToLower(plural)
      known == {p \in knownSingulars : p[1] = lowerPlural}
  IN IF known # {}
       THEN LET singular == (CHOOSE p \in known : TRUE)[2]
            IN IF Len(plural) > 0 /\ ToUpperCh(plural[1]) = plural[1] /\ Len(singular) > 0
                 THEN <<ToUpperCh(singular[1])>> \o Tail(singular)
                 ELSE singular
     ELSE IF HasSuffix(lowerPlural, <<"i","e","s">>) /\ Len(lowerPlural) > 3
       THEN DropLast(plural, 3) \o <<"y">>
     ELSE IF \/ HasSuffix(lowerPlural, <<"s","s">>)
             \/ HasSuffix(lowerPlural, <<"u","s">>)
             \/ HasSuffix(lowerPlural, <<"i","s">>)
       THEN plural
     ELSE IF HasSuffix(lowerPlural, <<"s">>) /\ Len(lowerPlural) > 1
       THEN DropLast(plural, 1)
     ELSE IF HasSuffix(lowerPlural, <<"e","s">>) /\ Len(lowerPlural) > 2
       THEN DropLast(plural, 2)
     ELSE plural

----------------------------------------------------------------------------
(* Regular expressions (regexp.MustCompile patterns, anchored with ^...$)  *)

ReSet(cs)    == [k |-> "set", cs |-> cs]
ReSeq(rs)    == [k |-> "seq", rs |-> rs]
ReAlt(rs)    == [k |-> "alt", rs |-> rs]
ReOpt(r)     == [k |-> "opt", r |-> r]
RePlus(r)    == [k |-> "plus", r |-> r]
ReRep(r, n)  == [k |-> "rep", r |-> r, n |-> n]

ReDigit      == ReSet(Range(DigitChars))
ReChar(c)    == ReSet({c})
ReHex        == ReSet(Range(DigitChars) \cup {"a","b","c","d","e","f","A","B","C","D","E","F"})

\* MatchEnds(r, s, i): the positions j such that r matches s[i..j-1].
RECURSIVE MatchEnds(_, _, _)
RECURSIVE MatchSeq(_, _, _, _)
MatchSeq(rs, n, s, P) ==
  IF n > Len(rs) THEN P
  ELSE MatchSeq(rs, n + 1, s, UNION {MatchEnds(rs[n], s, i) : i \in P})

MatchEnds(r, s, i) ==
  CASE r.k = "set"  -> IF i <= Len(s) /\ s[i] \in r.cs THEN {i + 1} ELSE {}
    [] r.k = "seq"  -> MatchSeq(r.rs, 1, s, {i})
    [] r.k = "alt"  -> UNION {MatchEnds(r.rs[n], s, i) : n \in DOMAIN r.rs}
    [] r.k = "opt"  -> {i} \cup MatchEnds(r.r, s, i)
    [] r.k = "plus" -> LET E == MatchEnds(r.r, s, i)
                       IN E \cup UNION {MatchEnds(r, s, j) : j \in E}
    [] r.k = "rep"  -> IF r.n = 0 THEN {i}
                       ELSE UNION {MatchEnds(ReRep(r.r, r.n - 1), s, j) : j \in MatchEnds(r.r, s, i)}

MatchString(r, s) == (Len(s) + 1) \in MatchEnds(r, s, 1)

ReDate == ReSeq(<<ReRep(ReDigit, 4), ReChar("-"), ReRep(ReDigit, 2), ReChar("-"), ReRep(ReDigit, 2)>>)
ReClock == ReSeq(<<ReRep(ReDigit, 2), ReChar(":"), ReRep(ReDigit, 2), ReChar(":"), ReRep(ReDigit, 2)>>)
ReFraction == ReSeq(<<ReChar("."), RePlus(ReDigit)>>)
ReOffset == ReSeq(<<ReSet({"+", "-"}), ReRep(ReDigit, 2), ReChar(":"), ReRep(ReDigit, 2)>>)

uuidRegex ==
  ReSeq(<<ReRep(ReHex, 8), ReChar("-"), ReRep(ReHex, 4), ReChar("-"), ReRep(ReHex, 4),
          ReChar("-"), ReRep(ReHex, 4), ReChar("-"), ReRep(ReHex, 12)>>)

rfc3339Regex ==
  ReSeq(<<ReDate, ReChar("T"), ReClock, ReOpt(ReFraction), ReAlt(<<ReChar("Z"), ReOffset>>)>>)

rfc3339NanoRegex ==
  ReSeq(<<ReDate, ReChar("T"), ReClock, ReChar("."), ReRep(ReDigit, 9),
          ReAlt(<<ReChar("Z"), ReOffset>>)>>)

iso8601Regex ==
  ReSeq(<<ReDate, ReChar("T"), ReClock, ReOpt(ReFraction),
          ReOpt(ReAlt(<<ReOffset, ReChar("Z"),
                        ReSeq(<<ReSet({"+", "-"}), ReRep(ReDigit, 4)>>)>>))>>)

dateOnlyRegex == ReDate

dateTimeRegex == ReSeq(<<ReDate, ReChar(" "), ReClock, ReOpt(ReFraction)>>)

unixTimestampRegex == ReSeq(<<ReChar("1"), ReRep(ReDigit, 9)>>)

unixMilliRegex == ReSeq(<<ReChar("1"), ReRep(ReDigit, 12)>>)

----------------------------------------------------------------------------
(* Type mappings of the configuration (config.TypeMapping)                 *)

\* The regex field of a TypeMapping whose pattern has not been compiled.
NilRegexp == [k |-> "nil"]

\* A TypeMapping built by hand: Pattern is held in parsed form, regex is nil.
TypeMapping(pattern, type, import) ==
  [Pattern |-> pattern, Type |-> type, Import |-> import, regex |-> NilRegexp]

\* (*Regexp).MatchString of a pattern without anchors: a match anywhere.
FindMatch(re, s) == \E i \in 1..(Len(s) + 1) : MatchEnds(re, s, i) # {}

\* (tm *TypeMapping) MatchesField: compiles the pattern into tm.regex when it
\* is nil; the answer, and the TypeMapping the receiver points at afterwards.
MatchesField(tm, fieldName) ==
  LET compiled == IF tm.regex = NilRegexp THEN [tm EXCEPT !.regex = tm.Pattern] ELSE tm
  IN [matches |-> FindMatch(compiled.regex, fieldName), tm |-> compiled]

\* (c *Config) FindTypeMapping: `for _, mapping := range c.Types.Mappings`
\* hands MatchesField a copy of the element, so c itself is only read; the
\* first mapping that matches is returned (the copy, compiled).
FindTypeMapping(c, fieldName) ==
  LET M == {i \in DOMAIN c.Mappings : MatchesField(c.Mappings[i], fieldName).matches}
  IN IF M = {} THEN [found |-> FALSE]
     ELSE LET first == CHOOSE i \in M : \A j \in M : i <= j
          IN [found |-> TRUE, mapping |-> MatchesField(c.Mappings[first], fieldName).tm]

\* config.NewConfig(): no type mapping.
NewConfig == [Mappings |-> <<>>]

----------------------------------------------------------------------------
(* JSON values (models.JSONValue as produced by the parser)                *)

JNull    == [t |-> "null"]
JBool(b) == [t |-> "bool", b |-> b]
JNum(l)  == [t |-> "num", lit |-> l]
JStr(s)  == [t |-> "str", s |-> s]
JObj(f)  == [t |-> "obj", f |-> f]
JArr(e)  == [t |-> "arr", e |-> e]

\* A value of the IR that is none of those: analyzeNode's default case.
JOther == [t |-> "other"]

\* parser.Parse: ir.RootIsArray is true exactly for a models.JSONArray root.
RootIsArray(d) == d.t = "arr"

----------------------------------------------------------------------------
(* TypeInfo, FieldInfo, StructDef                                          *)

Nil == [Kind |-> "Nil"]

TypeInfo(kind, name, isPointer, structName, elem) ==
  [Kind |-> kind, Name |-> name, IsPointer |-> isPointer,
   StructName |-> structName, SliceElementType |-> elem]

NameInterface == <<"i","n","t","e","r","f","a","c","e","{","}">>
NameBool      == <<"b","o","o","l">>
NameString    == <<"s","t","r","i","n","g">>
NameInt64     == <<"i","n","t","6","4">>
NameFloat64   == <<"f","l","o","a","t","6","4">>
NameTime      == <<"t","i","m","e",".","T","i","m","e">>

\* json.Number.Int64 is strconv.ParseInt(s, 10, 64): an optional sign, one or
\* more digits, and a value within [-2^63, 2^63 - 1].  The magnitude is
\* compared digit by digit (it does not fit the integers of the checker).
RECURSIVE StripZeros(_)
StripZeros(d) == IF Len(d) > 1 /\ d[1] = "0" THEN StripZeros(Tail(d)) ELSE d

MaxInt64Digits == <<"9","2","2","3","3","7","2","0","3","6","8","5","4","7","7","5","8","0","7">>
MinInt64Digits == <<"9","2","2","3","3","7","2","0","3","6","8","5","4","7","7","5","8","0","8">>

DigitsLeq(d, lim) ==
  LET e == StripZeros(d)
  IN \/ Len(e) < Len(lim)
     \/ Len(e) = Len(lim) /\ (e = lim \/ StrLess(e, lim))

ParseIntOk(lit) ==
  LET signed == Len(lit) > 0 /\ lit[1] \in {"+", "-"}
      digits == IF signed THEN Tail(lit) ELSE lit
      neg    == signed /\ lit[1] = "-"
  IN /\ Len(digits) > 0
     /\ \A i \in DOMAIN digits : IsNum(digits[i])
     /\ DigitsLeq(digits, IF neg THEN MinInt64Digits ELSE MaxInt64Digits)

TInt   == TypeInfo("Int", NameInt64, FALSE, <<>>, Nil)
TFloat == TypeInfo("Float", NameFloat64, FALSE, <<>>, Nil)

analyzeNumber(num) ==
  IF MatchString(unixTimestampRegex, num) THEN TInt
  ELSE IF MatchString(unixMilliRegex, num) THEN TInt
  ELSE IF ParseIntOk(num) THEN TInt
  ELSE TFloat

TString == TypeInfo("String", NameString, FALSE, <<>>, Nil)
TTime   == TypeInfo("Time", NameTime, FALSE, <<>>, Nil)

IsTimeString(s) ==
  \/ MatchString(rfc3339NanoRegex, s)
  \/ MatchString(rfc3339Regex, s)
  \/ MatchString(iso8601Regex, s)
  \/ MatchString(dateOnlyRegex, s)
  \/ MatchString(dateTimeRegex, s)

\* An analyzeString that registers no import.
analyzeStringNoImport(an, s) ==
  IF MatchString(uuidRegex, s) THEN [ti |-> TString, an |-> an]
  ELSE IF IsTimeString(s) THEN [ti |-> TTime, an |-> an]
  ELSE [ti |-> TString, an |-> an]

\* analyzeString: the TypeInfo, and the Analyzer with the import registered.
analyzeString(an, s) ==
  IF MatchString(uuidRegex, s) THEN [ti |-> TString, an |-> an]
  ELSE IF IsTimeString(s)
    THEN [ti |-> TTime, an |-> [an EXCEPT !.imports = @ \cup {"time"}]]
  ELSE [ti |-> TString, an |-> an]

----------------------------------------------------------------------------
(* The Analyzer: structNames, analysisResult.Structs, analysisResult.Imports *)

\* NewAnalyzer(): empty name registry, empty catalog, default configuration
\* (no type mapping, PascalCase field names).
NewAnalyzer ==
  [structNames |-> [n \in {} |-> 0], structs |-> <<>>, imports |-> {},
   config |-> NewConfig]

\* NewAnalyzerWithConfig(cfg).  a.config points at cfg; no step of the
\* analysis writes through it, so the Analyzer holds it as a value.
NewAnalyzerWithConfig(cfg) == [NewAnalyzer EXCEPT !.config = cfg]

\* a.checkTypeMapping(fieldName)
checkTypeMapping(an, fieldName) == FindTypeMapping(an.config, fieldName)

\* a.structNames[name] (0 when absent, as a Go map read).
NameCount(an, name) ==
  IF name \in DOMAIN an.structNames THEN an.structNames[name] ELSE 0

MapPut(f, k, v) == [x \in DOMAIN f \cup {k} |-> IF x = k THEN v ELSE f[x]]

DefaultRootName == <<"R","o","o","t","T","y","p","e">>

\* generateUniqueStructName: the name, and the Analyzer with the counter bumped.
generateUniqueStructName(an, baseName) ==
  LET count == NameCount(an, baseName)
  IN [name |-> IF count > 0 THEN baseName \o Itoa(count) ELSE baseName,
      an   |-> [an EXCEPT !.structNames = MapPut(@, baseName, count + 1)]]

RECURSIVE areTypeInfosEqual(_, _)
areTypeInfosEqual(t1, t2) ==
  IF t1 = Nil \/ t2 = Nil THEN t1 = t2
  ELSE IF \/ t1.Kind # t2.Kind
          \/ t1.Name # t2.Name
          \/ t1.IsPointer # t2.IsPointer
          \/ t1.StructName # t2.StructName THEN FALSE
  ELSE IF t1.Kind = "Slice"
    THEN areTypeInfosEqual(t1.SliceElementType, t2.SliceElementType)
  ELSE TRUE

\* s1Fields[f.JSONKey] = f over s1.Fields: the last field with that key.
FieldByKey(fields, key) ==
  LET I == {i \in DOMAIN fields : fields[i].JSONKey = key}
  IN fields[CHOOSE i \in I : \A j \in I : j <= i]

\* A comparison that also compares the struct names (the code ignores them).
areStructDefsEquivalentByName(s1, s2) ==
  /\ s1.Name = s2.Name
  /\ Len(s1.Fields) = Len(s2.Fields)
  /\ \A j \in DOMAIN s2.Fields :
       \E i \in DOMAIN s1.Fields :
         /\ s1.Fields[i].JSONKey = s2.Fields[j].JSONKey
         /\ s1.Fields[i].GoName = s2.Fields[j].GoName
         /\ s1.Fields[i].JSONTag = s2.Fields[j].JSONTag
         /\ areTypeInfosEqual(s1.Fields[i].GoType, s2.Fields[j].GoType)

areStructDefsEquivalent(s1, s2) ==
  /\ Len(s1.Fields) = Len(s2.Fields)
  /\ \A j \in DOMAIN s2.Fields :
       LET f2 == s2.Fields[j]
       IN /\ \E i \in DOMAIN s1.Fields : s1.Fields[i].JSONKey = f2.JSONKey
          /\ LET f1 == FieldByKey(s1.Fields, f2.JSONKey)
             IN /\ f1.GoName = f2.GoName
                /\ f1.JSONTag = f2.JSONTag
                /\ areTypeInfosEqual(f1.GoType, f2.GoType)

TStruct(name) == TypeInfo("Struct", name, FALSE, name, Nil)

\* A findOrAddStructDef that gives the root struct a generated name too.
findOrAddStructDefSuffixed(an, candidateStructDef, suggestedName, isRoot, isArrayElement) ==
  LET E == {i \in DOMAIN an.structs :
              areStructDefsEquivalent(candidateStructDef, an.structs[i])}
  IN IF E # {}
       THEN LET first == CHOOSE i \in E : \A j \in E : i <= j
            IN [ti |-> TStruct(an.structs[first].Name), an |-> an]
     ELSE
       LET gen   == generateUniqueStructName(an, suggestedName)
           added == [Name   |-> gen.name,
                     Fields |-> candidateStructDef.Fields,
                     IsRoot |-> IF isArrayElement THEN FALSE ELSE isRoot]
       IN [ti |-> TStruct(gen.name),
           an |-> [gen.an EXCEPT !.structs = Append(@, added)]]

\* findOrAddStructDef: the TypeInfo of the first equivalent struct of the
\* catalog, or of the candidate appended under its final name.
findOrAddStructDef(an, candidateStructDef, suggestedName, isRoot, isArrayElement) ==
  LET E == {i \in DOMAIN an.structs :
              areStructDefsEquivalent(candidateStructDef, an.structs[i])}
  IN IF E # {}
       THEN LET first == CHOOSE i \in E : \A j \in E : i <= j
            IN [ti |-> TStruct(an.structs[first].Name), an |-> an]
     ELSE
       LET gen       == generateUniqueStructName(an, suggestedName)
           finalName == IF ~isRoot THEN gen.name ELSE suggestedName
           an1       == IF ~isRoot THEN gen.an
                        ELSE [an EXCEPT !.structNames =
                                MapPut(@, suggestedName, NameCount(an, suggestedName) + 1)]
           added     == [Name   |-> finalName,
                         Fields |-> candidateStructDef.Fields,
                         IsRoot |-> IF isArrayElement THEN FALSE ELSE isRoot]
       IN [ti |-> TStruct(finalName),
           an |-> [an1 EXCEPT !.structs = Append(@, added)]]

Omitempty == <<",","o","m","i","t","e","m","p","t","y">>

\* A determineOmitempty that skips the IsPointer test.
determineOmitemptyByKind(originalValue, typeInfo) ==
  IF typeInfo.Kind \in {"Slice", "Interface"} THEN Omitempty
  ELSE IF typeInfo.Kind = "Struct" THEN <<>>
  ELSE IF originalValue.t = "null" THEN Omitempty
  ELSE <<>>

determineOmitempty(originalValue, typeInfo) ==
  IF typeInfo.IsPointer THEN Omitempty
  ELSE IF typeInfo.Kind \in {"Slice", "Interface"} THEN Omitempty
  ELSE IF typeInfo.Kind = "Struct" THEN <<>>
  ELSE IF originalValue.t = "null" THEN Omitempty
  ELSE <<>>

\* The back quote that delimits a Go struct tag (one character of the tag).
BackQuote == "BACKQUOTE"

\* fmt.Sprintf of the tag: back quote, json:"<key><omitempty>", back quote.
JsonTag(key, omitempty) ==
  <<BackQuote,"j","s","o","n",":","\"">> \o key \o omitempty \o <<"\"",BackQuote>>

\* A nullable rule that makes every field a pointer.
NullableTypeAlways(val, fieldTypeInfo) == [fieldTypeInfo EXCEPT !.IsPointer = TRUE]

\* "Handle nullable fields": a null value, a struct, a slice or an
\* interface{} field becomes a pointer.
NullableType(val, fieldTypeInfo) ==
  IF val.t = "null" \/ fieldTypeInfo.Kind \in {"Struct", "Slice", "Interface"}
    THEN [fieldTypeInfo EXCEPT !.IsPointer = TRUE]
    ELSE fieldTypeInfo

\* The FieldInfo appended for key with value val whose analyzeNode result is ti.
MakeField(key, val, ti) ==
  LET fieldTypeInfo == NullableType(val, ti)
  IN [JSONKey |-> key,
      GoName  |-> GetFieldName(key),
      GoType  |-> fieldTypeInfo,
      JSONTag |-> JsonTag(key, determineOmitempty(val, fieldTypeInfo))]

\* The field of a key that a type mapping matches (lines 252-275).
MappedField(key, val, mapping) ==
  LET fieldTypeInfo == TypeInfo("String", mapping.Type, val.t = "null", <<>>, Nil)
  IN [JSONKey |-> key,
      GoName  |-> GetFieldName(key),
      GoType  |-> fieldTypeInfo,
      JSONTag |-> JsonTag(key, determineOmitempty(val, fieldTypeInfo))]

\* The Analyzer after the import of a matching type mapping is registered.
MappedImport(an, mapping) ==
  IF mapping.Import # "" THEN [an EXCEPT !.imports = @ \cup {mapping.Import}] ELSE an

TInterface(isPointer) == TypeInfo("Interface", NameInterface, isPointer, <<>>, Nil)
TBool == TypeInfo("Bool", NameBool, FALSE, <<>>, Nil)

SliceOf(name, elem) == TypeInfo("Slice", name, TRUE, <<>>, elem)

\* All the orders in which a Go range loop may visit the keys of a map.
IterationOrders(K) ==
  {p \in [1..Cardinality(K) -> K] : \A i, j \in DOMAIN p : p[i] = p[j] => i = j}

----------------------------------------------------------------------------
(* The recursive descent.  Each operator returns the set of its outcomes.  *)

\* The outcome of a call that returned an error, with the Analyzer as the
\* call left it.
Fail(an) == [err |-> TRUE, an |-> an]

Failed(r) == "err" \in DOMAIN r

RECURSIVE analyzeNode(_, _, _, _, _)
RECURSIVE analyzeObject(_, _, _, _, _)
RECURSIVE ObjectFields(_, _, _, _)
RECURSIVE analyzeArray(_, _, _, _)
RECURSIVE ElementInfos(_, _, _, _, _)
RECURSIVE createMergedStructDef(_, _, _)
RECURSIVE MergeObjects(_, _, _)
RECURSIVE MergeKeys(_, _, _, _)
RECURSIVE MergeNested(_, _, _)

analyzeNode(an, node, suggestedName, isRootNode, isArrayElement) ==
  CASE node.t = "null" -> {[ti |-> TInterface(TRUE), an |-> an]}
    [] node.t = "bool" -> {[ti |-> TBool, an |-> an]}
    [] node.t = "str"  -> {analyzeString(an, node.s)}
    [] node.t = "num"  -> {[ti |-> analyzeNumber(node.lit), an |-> an]}
    [] node.t = "obj"  -> analyzeObject(an, node.f, suggestedName, isRootNode, isArrayElement)
    [] node.t = "arr"  -> analyzeArray(an, node.e, suggestedName, isArrayElement)
    [] OTHER           -> {Fail(an)}

\* The loop of analyzeObject over the sorted keys; S holds the candidate's
\* fields so far with the Analyzer, one element per outcome.
ObjectFields(S, obj, structName, keys) ==
  IF keys = <<>> THEN S
  ELSE
    LET key == Head(keys)
        val == obj[key]
        Step(x) ==
          IF Failed(x) THEN {x}
          ELSE LET m == checkTypeMapping(x.an, key)
               IN IF m.found
                    THEN {[fields |-> Append(x.fields, MappedField(key, val, m.mapping)),
                           an     |-> MappedImport(x.an, m.mapping)]}
                  ELSE {IF Failed(r) THEN r
                        ELSE [fields |-> Append(x.fields, MakeField(key, val, r.ti)),
                              an |-> r.an] :
                          r \in analyzeNode(x.an, val, structName \o GetFieldName(key),
                                            FALSE, FALSE)}
    IN ObjectFields(UNION {Step(x) : x \in S}, obj, structName, Tail(keys))

analyzeObject(an, obj, suggestedName, isParentObject, isArrayElement) ==
  LET structName == IF ~isParentObject THEN GetFieldName(suggestedName) ELSE suggestedName
      keys       == SortStrings(DOMAIN obj)
      S          == ObjectFields({[fields |-> <<>>, an |-> an]}, obj, structName, keys)
  IN {IF Failed(x) THEN x
      ELSE findOrAddStructDef(x.an,
                              [Name |-> structName, Fields |-> x.fields, IsRoot |-> FALSE],
                              structName, isParentObject, isArrayElement) : x \in S}

\* The loop of analyzeArray that analyzes every element (lines 363-374).
ElementInfos(S, arr, i, elementSuggestedName, isRootArray) ==
  IF i > Len(arr) THEN S
  ELSE
    LET Step(x) ==
          IF Failed(x) THEN {x}
          ELSE {IF Failed(r) THEN r
                ELSE [infos |-> Append(x.infos, r.ti), an |-> r.an] :
                  r \in analyzeNode(x.an, arr[i], elementSuggestedName,
                                    isRootArray /\ i = 1, TRUE)}
    IN ElementInfos(UNION {Step(x) : x \in S}, arr, i + 1, elementSuggestedName, isRootArray)

\* The slice type of an array from the TypeInfos of its elements (lines 376-446).
ArrayType(elementInfos) ==
  LET first     == elementInfos[1]
      allSlices == \A i \in DOMAIN elementInfos : elementInfos[i].Kind = "Slice"
      isHomogeneous ==
        \A i \in 2..Len(elementInfos) : areTypeInfosEqual(first, elementInfos[i])
  IN IF first.Kind = "Slice" /\ allSlices /\ first.SliceElementType # Nil
       THEN SliceOf(<<"[","]">> \o first.Name, first.SliceElementType)
     ELSE IF isHomogeneous
       THEN IF first.Kind = "Struct"
              THEN SliceOf(<<"[","]","*">> \o first.Name, [first EXCEPT !.IsPointer = TRUE])
            ELSE IF first.IsPointer
              THEN SliceOf(<<"[","]","*">> \o first.Name, first)
            ELSE SliceOf(<<"[","]">> \o first.Name, first)
     ELSE SliceOf(<<"[","]">> \o NameInterface, TInterface(FALSE))

analyzeArray(an, arr, suggestedElementName, isArrayElement) ==
  IF Len(arr) = 0
    THEN {[ti |-> SliceOf(<<"[","]">> \o NameInterface, TInterface(FALSE)), an |-> an]}
  ELSE
    LET elementSuggestedName == singularize(GetFieldName(suggestedElementName))
        isRootArray == NameCount(an, elementSuggestedName) = 1
        allObjects  == \A i \in DOMAIN arr : arr[i].t = "obj"
        Merged(m) ==
          IF Failed(m) THEN m
          ELSE
            LET r == findOrAddStructDef(m.an, m.sd, elementSuggestedName, isRootArray, TRUE)
            IN [ti |-> SliceOf(<<"[","]","*">> \o r.ti.Name, [r.ti EXCEPT !.IsPointer = TRUE]),
                an |-> r.an]
    IN IF allObjects
         THEN {Merged(m) :
                 m \in createMergedStructDef(an, [i \in DOMAIN arr |-> arr[i].f],
                                             elementSuggestedName)}
         ELSE {IF Failed(x) THEN x ELSE [ti |-> ArrayType(x.infos), an |-> x.an] :
                 x \in ElementInfos({[infos |-> <<>>, an |-> an]}, arr, 1,
                                    elementSuggestedName, isRootArray)}

\* First loop of createMergedStructDef, one object: non-object values are
\* analyzed and stored in allFields (a later element overwrites an earlier
\* one), object values are collected in nestedObjectFields.
MergeKeys(S, obj, keys, suggestedName) ==
  IF keys = <<>> THEN S
  ELSE
    LET key == Head(keys)
        val == obj[key]
        Step(m) ==
          IF Failed(m) THEN {m}
          ELSE IF val.t = "obj"
            THEN {[m EXCEPT !.nested =
                     MapPut(@, key, IF key \in DOMAIN @ THEN Append(@[key], val.f)
                                    ELSE <<val.f>>)]}
            ELSE {IF Failed(r) THEN r
                  ELSE [m EXCEPT !.allFields = MapPut(@, key, MakeField(key, val, r.ti)),
                                 !.an = r.an] :
                    r \in analyzeNode(m.an, val, suggestedName \o GetFieldName(key),
                                      FALSE, FALSE)}
    IN MergeKeys(UNION {Step(m) : m \in S}, obj, Tail(keys), suggestedName)

\* A merge that takes its fields from the first element only.
MergeObjectsFirstOnly(S, objects, suggestedName) ==
  IF objects = <<>> THEN S
  ELSE MergeKeys(S, Head(objects), SortStrings(DOMAIN Head(objects)), suggestedName)

MergeObjects(S, objects, suggestedName) ==
  IF objects = <<>> THEN S
  ELSE MergeObjects(MergeKeys(S, Head(objects), SortStrings(DOMAIN Head(objects)),
                              suggestedName),
                    Tail(objects), suggestedName)

\* Second loop of createMergedStructDef: the nested object fields, visited
\* in the given order of their keys.
MergeNested(S, order, suggestedName) ==
  IF order = <<>> THEN S
  ELSE
    LET key == Head(order)
        nestedStructSuggestedName == suggestedName \o GetFieldName(key)
        Step(m) ==
          IF Failed(m) THEN {m}
          ELSE
            {IF Failed(r) THEN r
             ELSE
               LET f == findOrAddStructDef(r.an, r.sd, nestedStructSuggestedName, FALSE, FALSE)
               IN [m EXCEPT !.allFields =
                              MapPut(@, key, [JSONKey |-> key,
                                              GoName  |-> GetFieldName(key),
                                              GoType  |-> [f.ti EXCEPT !.IsPointer = TRUE],
                                              JSONTag |-> JsonTag(key, Omitempty)]),
                            !.an = f.an] :
               r \in createMergedStructDef(m.an, m.nested[key], nestedStructSuggestedName)}
    IN MergeNested(UNION {Step(m) : m \in S}, Tail(order), suggestedName)

createMergedStructDef(an, objects, suggestedName) ==
  LET S1 == MergeObjects({[allFields |-> [k \in {} |-> 0], nested |-> [k \in {} |-> 0],
                           an |-> an]}, objects, suggestedName)
      Orders(m) == IF Failed(m) THEN {{m}}
                   ELSE {MergeNested({m}, order, suggestedName) :
                           order \in IterationOrders(DOMAIN m.nested)}
      S2 == UNION UNION {Orders(m) : m \in S1}
      Fields(m) == LET keys == SortStrings(DOMAIN m.allFields)
                   IN [i \in 1..Len(keys) |-> m.allFields[keys[i]]]
  IN {IF Failed(m) THEN m
      ELSE [sd |-> [Name |-> suggestedName, Fields |-> Fields(m), IsRoot |-> FALSE],
            an |-> m.an] : m \in S2}

ValueKey == <<"v","a","l","u","e">>

\* The IsRoot pass at the end of Analyze (lines 122-138).
MarkRoot(an, d, rootStructName, rootTypeInfo) ==
  IF RootIsArray(d)
    THEN [an EXCEPT !.structs = [i \in DOMAIN @ |-> [@[i] EXCEPT !.IsRoot = FALSE]]]
  ELSE
    LET M == {i \in DOMAIN an.structs :
                \/ an.structs[i].Name = rootStructName
                \/ (an.structs[i].Name = rootTypeInfo.StructName
                    /\ rootTypeInfo.Kind = "Struct")}
    IN IF M = {} THEN an
       ELSE LET first == CHOOSE i \in M : \A j \in M : i <= j
            IN [an EXCEPT !.structs[first].IsRoot = TRUE]

\* Analyze once the root struct name is generated (lines 76-140): the
\* Analyzers it can leave behind; the AnalysisResult returned is
\* a.analysisResult of that Analyzer.  An Analyzer left by a call that
\* returned an error is tagged with err.
AnalyzeNamed(an, d, rootStructName) ==
  LET Wrap(a, ti, tag) ==
        [a EXCEPT !.structs =
           Append(@, [Name   |-> rootStructName,
                      Fields |-> <<[JSONKey |-> ValueKey, GoName |-> <<"V","a","l","u","e">>,
                                    GoType |-> ti, JSONTag |-> tag]>>,
                      IsRoot |-> TRUE])]
      S == IF d.t = "null"
             THEN {[ti |-> TStruct(rootStructName),
                    an |-> Wrap(an, TInterface(TRUE), JsonTag(ValueKey, Omitempty))]}
             ELSE {IF Failed(r) THEN r
                   ELSE IF ~RootIsArray(d) /\ r.ti.Kind # "Struct"
                     THEN [ti |-> TStruct(rootStructName),
                           an |-> Wrap(r.an, r.ti, JsonTag(ValueKey, <<>>))]
                     ELSE r :
                   r \in analyzeNode(an, d, rootStructName, TRUE, FALSE)}
  IN {IF Failed(r) THEN [an |-> r.an, err |-> TRUE]
      ELSE [an |-> MarkRoot(r.an, d, rootStructName, r.ti), err |-> FALSE] : r \in S}

\* Analyze(ir, rootStructName) on the Analyzer an.
Analyze(an, d, name) ==
  LET gen == generateUniqueStructName(an,
               GetFieldName(IF name = <<>> THEN DefaultRootName ELSE name))
  IN AnalyzeNamed(gen.an, d, gen.name)

\* return a.analysisResult, nil
AnalysisResult(an) == [Structs |-> an.structs, Imports |-> an.imports]

\* A result that hands out the catalog built so far.
PartialResult(an) == [Structs |-> an.structs, Imports |-> an.imports]

\* return models.AnalysisResult{}, err
ErrorResult(an) == [Structs |-> <<>>, Imports |-> {}]

----------------------------------------------------------------------------
(* The JSON Schema converter (schema.Converter)                            *)

\* A nil *Schema, and a Schema with every field at its zero value.  Type is
\* SchemaType.Types; a $ref is held as its prefix and the name after it.
NoSchema == [none |-> TRUE]
NoRef == <<>>
Schema ==
  [Ref |-> NoRef, Title |-> <<>>, Type |-> <<>>, Properties |-> <<>>, Required |-> <<>>,
   Items |-> NoSchema, Format |-> "", Nullable |-> FALSE, AllOf |-> <<>>,
   Definitions |-> <<>>, Defs |-> <<>>]

\* SchemaType.Primary and SchemaType.IsNullable
Primary(st) == IF Len(st) > 0 THEN st[1] ELSE ""
IsNullable(st) == \E i \in DOMAIN st : st[i] = "null"

\* Go map writes `m[k] = v` for every k, v of the map g.
MapMerge(f, g) ==
  [k \in DOMAIN f \cup DOMAIN g |-> IF k \in DOMAIN g THEN g[k] ELSE f[k]]

NewConverter(schema) ==
  [schema |-> schema, structs |-> <<>>, imports |-> {}, structNames |-> <<>>,
   definitions |-> MapMerge(schema.Definitions, schema.Defs), resolvedRefs |-> <<>>]

\* generateUniqueName: the name, and the Converter with the counter bumped.
generateUniqueName(c, baseName) ==
  LET count == IF baseName \in DOMAIN c.structNames THEN c.structNames[baseName] ELSE 0
  IN [name |-> IF count > 0 THEN baseName \o Itoa(count) ELSE baseName,
      c    |-> [c EXCEPT !.structNames = MapPut(@, baseName, count + 1)]]

\* The first loop of toPascalCase: the words of s from position i on, given
\* the word under construction and the words already closed.
RECURSIVE SplitWords(_, _, _, _)
SplitWords(s, i, current, words) ==
  LET closed == IF current # <<>> THEN Append(words, current) ELSE words
  IN IF i > Len(s) THEN closed
     ELSE IF s[i] \in {"_", "-", " ", "."} THEN SplitWords(s, i + 1, <<>>, closed)
     ELSE IF i > 1 /\ IsCap(s[i]) THEN SplitWords(s, i + 1, <<s[i]>>, closed)
     ELSE SplitWords(s, i + 1, Append(current, s[i]), words)

\* The second loop of toPascalCase: each word capitalized, the rest lowered.
RECURSIVE JoinCapitalized(_)
JoinCapitalized(words) ==
  IF words = <<>> THEN <<>>
  ELSE <<ToUpperCh(Head(words)[1])>> \o ToLower(Tail(Head(words)))
         \o JoinCapitalized(Tail(words))

toPascalCase(s) ==
  LET result == JoinCapitalized(SplitWords(s, 1, <<>>, <<>>))
  IN IF s = <<>> \/ result = <<>> THEN <<"F","i","e","l","d">> ELSE result

\* singularize of the schema package.
schemaSingularize(s) ==
  LET lower == ToLower(s)
  IN IF HasSuffix(lower, <<"i","e","s">>) /\ Len(s) > 3 THEN DropLast(s, 3) \o <<"y">>
     ELSE IF HasSuffix(lower, <<"e","s">>) /\ Len(s) > 2 THEN DropLast(s, 2)
     ELSE IF HasSuffix(lower, <<"s">>) /\ Len(s) > 1 THEN DropLast(s, 1)
     ELSE s

\* convertString: the TypeInfo, and the Converter with the import registered.
convertString(c, schema) ==
  IF schema.Format \in {"date-time", "date", "time"}
    THEN [ti |-> TTime, c |-> [c EXCEPT !.imports = @ \cup {"time"}]]
  ELSE [ti |-> TString, c |-> c]

\* The definition a member of allOf stands for (mergeAllOf, "resolve refs first").
ResolvedMember(c, s) ==
  IF /\ s.Ref # NoRef
     /\ s.Ref[1] \in {"#/definitions/", "#/$defs/"}
     /\ s.Ref[2] \in DOMAIN c.definitions
    THEN c.definitions[s.Ref[2]]
  ELSE s

RECURSIVE MergeMembers(_, _, _)
MergeMembers(c, merged, schemas) ==
  IF schemas = <<>> THEN merged
  ELSE LET resolved == ResolvedMember(c, Head(schemas))
       IN MergeMembers(c,
            [merged EXCEPT !.Properties = MapMerge(@, resolved.Properties),
                           !.Required = @ \o resolved.Required,
                           !.Title = IF @ = <<>> /\ resolved.Title # <<>>
                                       THEN resolved.Title ELSE @],
            Tail(schemas))

mergeAllOf(c, schemas) == [MergeMembers(c, Schema, schemas) EXCEPT !.Type = <<"object">>]

\* The final tag of generateFieldTags for a schema without length, range or
\* item-count constraints: the json part, and the validate part if any.
generateFieldTags(jsonKey, schema, typeInfo, isRequired) ==
  LET jsonTagValue == jsonKey \o (IF typeInfo.IsPointer THEN Omitempty ELSE <<>>)
      required == IF isRequired THEN <<<<"r","e","q","u","i","r","e","d">>>> ELSE <<>>
      email == IF schema.Format = "email" THEN <<<<"e","m","a","i","l">>>> ELSE <<>>
      url == IF schema.Format \in {"uri", "url"} THEN <<<<"u","r","l">>>> ELSE <<>>
      validationParts == required \o email \o url
      Join(parts) == LET RECURSIVE J(_)
                         J(p) == IF Len(p) = 1 THEN p[1] ELSE p[1] \o <<",">> \o J(Tail(p))
                     IN J(parts)
  IN <<BackQuote,"j","s","o","n",":","\"">> \o jsonTagValue \o <<"\"">>
       \o (IF validationParts # <<>>
             THEN <<" ","v","a","l","i","d","a","t","e",":","\"">>
                    \o Join(validationParts) \o <<"\"">>
           ELSE <<>>)
       \o <<BackQuote>>

\* "Field is pointer if: not required, OR explicitly nullable, OR type
\* includes null" (convertObject).
PointerType(propSchema, isRequired, typeInfo) ==
  IF ~isRequired \/ propSchema.Nullable \/ IsNullable(propSchema.Type)
    THEN [typeInfo EXCEPT !.IsPointer = TRUE]
  ELSE typeInfo

\* The error return of a conversion step: the Converter as it stands.
ConvertError(c) == [err |-> TRUE, c |-> c]

RECURSIVE convertSchema(_, _, _, _)
RECURSIVE convertObject(_, _, _, _)
RECURSIVE PropertyFields(_, _, _, _)
RECURSIVE convertArray(_, _, _)
RECURSIVE resolveRef(_, _, _)

convertSchema(c, schema, suggestedName, isRoot) ==
  IF schema.Ref # NoRef THEN resolveRef(c, schema.Ref, suggestedName)
  ELSE IF Len(schema.AllOf) > 0
    THEN convertSchema(c, mergeAllOf(c, schema.AllOf), suggestedName, isRoot)
  ELSE
    LET primary  == Primary(schema.Type)
        inferred == IF primary # "" THEN primary
                    ELSE IF DOMAIN schema.Properties # {} THEN "object"
                    ELSE IF schema.Items # NoSchema THEN "array"
                    ELSE ""
        others   == {i \in DOMAIN schema.Type : schema.Type[i] # "null"}
        schemaType ==
          IF inferred = "null" /\ Len(schema.Type) > 1 /\ others # {}
            THEN schema.Type[CHOOSE i \in others : \A j \in others : i <= j]
          ELSE inferred
    IN CASE schemaType = "object"  -> convertObject(c, schema, suggestedName, isRoot)
         [] schemaType = "array"   -> convertArray(c, schema, suggestedName)
         [] schemaType = "string"  -> convertString(c, schema)
         [] schemaType = "integer" -> [ti |-> TInt, c |-> c]
         [] schemaType = "number"  -> [ti |-> TFloat, c |-> c]
         [] schemaType = "boolean" -> [ti |-> TBool, c |-> c]
         [] schemaType = "null"    -> [ti |-> TInterface(TRUE), c |-> c]
         [] OTHER                  -> [ti |-> TInterface(FALSE), c |-> c]

\* The loop of convertObject over the sorted property names; x holds the
\* fields so far with the Converter.
PropertyFields(x, schema, finalName, propNames) ==
  IF propNames = <<>> \/ Failed(x) THEN x
  ELSE
    LET propName    == Head(propNames)
        propSchema  == schema.Properties[propName]
        goFieldName == toPascalCase(propName)
        r           == convertSchema(x.c, propSchema, finalName \o goFieldName, FALSE)
        isRequired  == propName \in Range(schema.Required)
        typeInfo    == PointerType(propSchema, isRequired, r.ti)
    IN IF Failed(r) THEN r
       ELSE PropertyFields(
              [fields |-> Append(x.fields,
                                 [JSONKey |-> propName, GoName |-> goFieldName,
                                  GoType |-> typeInfo,
                                  JSONTag |-> generateFieldTags(propName, propSchema,
                                                                typeInfo, isRequired)]),
               c |-> r.c],
              schema, finalName, Tail(propNames))

convertObject(c, schema, structName, isRoot) ==
  LET gen == generateUniqueName(c, structName)
      x   == PropertyFields([fields |-> <<>>, c |-> gen.c], schema, gen.name,
                            SortStrings(DOMAIN schema.Properties))
  IN IF Failed(x) THEN x
     ELSE [ti |-> TStruct(gen.name),
           c  |-> [x.c EXCEPT !.structs =
                     Append(@, [Name |-> gen.name, Fields |-> x.fields, IsRoot |-> isRoot])]]

convertArray(c, schema, suggestedName) ==
  LET r == IF schema.Items # NoSchema
             THEN convertSchema(c, schema.Items, schemaSingularize(suggestedName), FALSE)
           ELSE [ti |-> TInterface(FALSE), c |-> c]
  IN IF Failed(r) THEN r
     ELSE [ti |-> IF r.ti.Kind = "Struct"
                    THEN SliceOf(<<"[","]","*">> \o r.ti.Name, [r.ti EXCEPT !.IsPointer = TRUE])
                  ELSE SliceOf(<<"[","]">> \o r.ti.Name, r.ti),
           c  |-> r.c]

resolveRef(c, ref, suggestedName) ==
  IF ref \in DOMAIN c.resolvedRefs THEN [ti |-> c.resolvedRefs[ref], c |-> c]
  ELSE IF ref[1] \in {"#/definitions/", "#/$defs/"} /\ ref[2] \in DOMAIN c.definitions
    THEN LET r == convertSchema(c, c.definitions[ref[2]], toPascalCase(ref[2]), FALSE)
         IN IF Failed(r) THEN r
            ELSE [ti |-> r.ti, c |-> [r.c EXCEPT !.resolvedRefs = MapPut(@, ref, r.ti)]]
  ELSE ConvertError(c)

\* Convert(rootName) on the Converter c: the Converter it leaves behind, and
\* whether it returned an error.
Convert(c, name) ==
  LET pascalName == toPascalCase(IF name # <<>> THEN name
                                 ELSE IF c.schema.Title # <<>> THEN c.schema.Title
                                 ELSE DefaultRootName)
      r == convertSchema(c, c.schema, pascalName, TRUE)
  IN [c |-> r.c, err |-> Failed(r)]

----------------------------------------------------------------------------
(* The documents and root names the analysis is run on                     *)

\* Longest array of a document.
MaxArrayLen == 2

\* Analyze calls made on one Analyzer.
MaxCalls == 1

kA     == <<"a">>
kB     == <<"b">>
kX     == <<"x">>
kY     == <<"y">>
kItem  == <<"i","t","e","m">>
kItem1 == <<"i","t","e","m","1">>
kItems == <<"i","t","e","m","s">>

\* Number literals of a JSON text: small, around the int32 and int64 limits,
\* Unix-timestamp shaped, and non-integer.
NumberLiterals ==
  { <<"1">>, <<"4","2">>, <<"-","4","2">>,
    <<"2","1","4","7","4","8","3","6","4","7">>,
    <<"2","1","4","7","4","8","3","6","4","8">>,
    <<"1","6","7","4","6","4","1","4","0","0">>,
    <<"1","6","7","4","6","4","1","4","0","0","0","0","0">>,
    MaxInt64Digits, MinInt64Digits,
    <<"-">> \o MinInt64Digits,
    <<"-","9","2","2","3","3","7","2","0","3","6","8","5","4","7","7","5","8","0","9">>,
    <<"1",".","5">>, <<"1","9",".","9","9">>,
    <<"1",".","2","3","e","+","1","0">> }

StringSamples ==
  { <<"s">>,
    <<"n","o","t"," ","a"," ","t","i","m","e","s","t","a","m","p">>,
    <<"2","0","2","3","-","0","1","-","1","5","T","1","0",":","3","0",":","0","0","Z">>,
    <<"2","0","2","3","-","0","1","-","1","5">>,
    <<"a","1","b","2","c","3","d","4","-","e","5","f","6","-","7","7","7","7","-",
      "8","8","8","8","-","9","9","9","9","0","0","0","0","a","a","a","a">> }

\* Strings in the formats of RFC3339 with nanoseconds or an offset, ISO8601
\* with a short offset, and date, space, time.
TimeFormatSamples ==
  { <<"2","0","2","3","-","0","1","-","1","5","T","1","0",":","3","0",":","0","0",".","1","2","3","4","5","6","7","8","9","Z">>,
    <<"2","0","2","3","-","0","1","-","1","5","T","1","0",":","3","0",":","0","0","+","0","5",":","3","0">>,
    <<"2","0","2","3","-","0","1","-","1","5","T","1","0",":","3","0",":","0","0","+","0","5","3","0">>,
    <<"2","0","2","3","-","0","1","-","1","5"," ","1","0",":","3","0",":","0","0">>,
    <<"2","0","2","3","-","0","1","-","1","5"," ","1","0",":","3","0",":","0","0",".","1","2","3","4","5","6">> }

\* Strings in the US and European date orders, the ISO8601 basic, week and
\* ordinal forms, bare times of day and month-name dates.
ExtendedTimeSamples ==
  { <<"0","1","/","1","5","/","2","0","2","3">>,
    <<"1","/","1","5","/","2","0","2","3">>,
    <<"1","5",".","0","1",".","2","0","2","3">>,
    <<"2","0","2","3","0","1","1","5","T","1","0","3","0","0","0","Z">>,
    <<"2","0","2","3","-","W","0","3","-","1","T","1","0",":","3","0",":","0","0","Z">>,
    <<"2","0","2","3","-","0","1","5","T","1","0",":","3","0",":","0","0","Z">>,
    <<"1","4",":","3","0">>,
    <<"2",":","3","0",":","1","5"," ","P","M">>,
    <<"2","0","2","3","0","1","1","5">>,
    <<"J","a","n"," ","1","5",","," ","2","0","2","3">>,
    <<"1","5"," ","J","a","n","u","a","r","y"," ","2","0","2","3">> }

\* Strings that look numeric or date-like and are no timestamp.
NotTimeSamples ==
  { <<"2","0","2","3">>,
    <<"1","2","3","4","5">>,
    <<"2","0","2","3","/","1","3","/","4","5">> }

Leaves ==
  {JNull, JBool(TRUE)} \cup {JNum(l) : l \in NumberLiterals}
    \cup {JStr(s) : s \in StringSamples \cup TimeFormatSamples
                        \cup ExtendedTimeSamples \cup NotTimeSamples}

One  == JNum(<<"1">>)
ObjX == JObj([k \in {kX} |-> One])
ObjY == JObj([k \in {kY} |-> One])

\* Objects over the keys K whose values are drawn from V (any subset of K).
ObjectsOver(K, V) == UNION {{JObj(f) : f \in [S -> V]} : S \in SUBSET K}

\* Arrays of 0..MaxArrayLen elements drawn from E.
ArraysOf(E) == UNION {{JArr(e) : e \in [1..n -> E]} : n \in 0..MaxArrayLen}

\* A primitive at the root, and an object with the one field a.
PrimitiveDocs == Leaves \cup {JObj([k \in {kA} |-> v]) : v \in Leaves}

\* Root objects whose fields item, item1 and items suggest colliding struct
\* names: objects, arrays of objects, mixed and nested arrays.
ItemValues  == {One, ObjX, ObjY, JObj([k \in {kX} |-> ObjY])}
Item1Values == {ObjX, ObjY}
ItemsValues == ArraysOf({One, ObjX, ObjY}) \cup {JArr(<<JArr(<<One>>), JArr(<<JStr(<<"s">>)>>)>>)}

ObjectDocs ==
  UNION { {JObj(f) : f \in {g \in [S -> ItemValues \cup ItemsValues] :
                              /\ kItem  \in S => g[kItem]  \in ItemValues
                              /\ kItem1 \in S => g[kItem1] \in Item1Values
                              /\ kItems \in S => g[kItems] \in ItemsValues}} :
          S \in SUBSET {kItem, kItem1, kItems} }

\* Root arrays of objects over the keys a and b: primitive, null and nested
\* object values, keys missing from some elements.
ElementObjects ==
  UNION { {JObj(f) : f \in {g \in [S -> {One, JNull, ObjX}] :
                              kB \in S => g[kB] = ObjX}} :
          S \in SUBSET {kA, kB} }

ArrayDocs == {JArr(e) : e \in UNION {[1..n -> ElementObjects] : n \in 1..MaxArrayLen}}

\* A root object whose field a is an array of primitives (equal or of
\* different types), or an array of arrays.
PlainArrays == ArraysOf({One, JNum(<<"1",".","5">>), JStr(<<"s">>), JNull})

NestedArrays ==
  { JArr(<<JArr(<<One>>), JArr(<<One>>)>>),
    JArr(<<JArr(<<One>>), JArr(<<JStr(<<"s">>)>>)>>),
    JArr(<<JArr(<<One>>), One>>),
    JArr(<<JArr(<<>>)>>) }

ArrayFieldDocs == {JObj([k \in {kA} |-> v]) : v \in PlainArrays \cup NestedArrays}

\* Documents holding a value of an unexpected type: at the root, as a field
\* after a timestamp field, in an array that follows a nested object, in an
\* element of a merged array, in a nested object of a merged root array.
ErrorDocs ==
  { JOther,
    JObj([k \in {kA, kB} |-> IF k = kA THEN JStr(<<"2","0","2","3","-","0","1","-","1","5">>)
                             ELSE JOther]),
    JObj([k \in {kItem, kItems} |-> IF k = kItem THEN ObjX ELSE JArr(<<One, JOther>>)]),
    JObj([k \in {kItem, kItems} |->
            IF k = kItem THEN ObjX ELSE JArr(<<ObjY, JObj([j \in {kX} |-> JOther])>>)]),
    JArr(<<JObj([k \in {kA, kB} |-> IF k = kA THEN ObjX ELSE JObj([j \in {kX} |-> JOther])])>>) }

Docs == PrimitiveDocs \cup ObjectDocs \cup ArrayDocs \cup ArrayFieldDocs \cup ErrorDocs

NameUser  == <<"U","s","e","r">>
NameItems == <<"I","t","e","m","s">>
NameLower == <<"u","s","e","r","_","d","a","t","a">>

RootNames == {<<>>, NameUser, NameItems, NameLower}

\* Documents in which a value is analysed and its type then dropped or kept:
\* a timestamp beside a number or beside another timestamp in an array, and
\* root arrays of objects in which a later element gives the key a another
\* kind of value than an earlier one (a timestamp, an array of objects).
DateValue == JStr(<<"2","0","2","3","-","0","1","-","1","5">>)

DiscardingDocs ==
  { JObj([k \in {kA} |-> JArr(<<DateValue, One>>)]),
    JObj([k \in {kA} |-> JArr(<<DateValue, DateValue>>)]),
    JArr(<<JObj([k \in {kA} |-> DateValue]), JObj([k \in {kA} |-> One])>>),
    JArr(<<JObj([k \in {kA} |-> One]), JObj([k \in {kA} |-> DateValue])>>),
    JArr(<<JObj([k \in {kA} |-> JArr(<<ObjX>>)]), JObj([k \in {kA} |-> One])>>),
    JArr(<<JObj([k \in {kA} |-> One]), JObj([k \in {kA} |-> JArr(<<ObjX>>)])>>) }

\* The (document, root name) pairs Analyze is called with.
Inputs ==
  (PrimitiveDocs \X RootNames)
    \cup ((ObjectDocs \cup ArrayFieldDocs \cup ErrorDocs \cup DiscardingDocs) \X {NameUser})
    \cup (ArrayDocs \X {NameUser, NameItems})

----------------------------------------------------------------------------
(* The schemas the conversion is run on                                    *)

kTags    == <<"t","a","g","s">>
kAddress == <<"a","d","d","r","e","s","s">>
kLabels  == <<"l","a","b","e","l","s">>
kMissing == <<"m","i","s","s","i","n","g">>

Typed(types) == [Schema EXCEPT !.Type = types]
ObjectOf(props, required) ==
  [Schema EXCEPT !.Type = <<"object">>, !.Properties = props, !.Required = required]
ArrayOf(items) == [Schema EXCEPT !.Type = <<"array">>, !.Items = items]
RefTo(prefix, name) == [Schema EXCEPT !.Ref = <<prefix, name>>]

\* An object with the required integer x and the optional string y.
Point ==
  ObjectOf([k \in {kX, kY} |-> IF k = kX THEN Typed(<<"integer">>) ELSE Typed(<<"string">>)],
           <<kX>>)

\* The schema of one property: every primitive type, formats, the null type,
\* no type, the nullable markers, arrays, objects, allOf, and references
\* that resolve, do not resolve or point outside the document.
PropertySchemas ==
  { Typed(<<"integer">>), Typed(<<"number">>), Typed(<<"boolean">>), Typed(<<"string">>),
    [Typed(<<"string">>) EXCEPT !.Format = "date-time"],
    [Typed(<<"string">>) EXCEPT !.Format = "email"],
    Typed(<<"null">>), Schema,
    Typed(<<"string", "null">>), Typed(<<"null", "integer">>),
    [Typed(<<"integer">>) EXCEPT !.Nullable = TRUE],
    ArrayOf(Typed(<<"integer">>)), ArrayOf(NoSchema), ArrayOf(Point),
    [ArrayOf(Typed(<<"string">>)) EXCEPT !.Type = <<"array", "null">>],
    Point,
    RefTo("#/definitions/", kAddress), RefTo("#/$defs/", kLabels),
    [Schema EXCEPT !.AllOf = <<RefTo("#/definitions/", kAddress), Point>>],
    RefTo("#/definitions/", kMissing), RefTo("common.json#/definitions/", kAddress) }

\* Root objects with the property tags, with or without the object property
\* address before it, each of them required or not; the root carries the
\* definitions address (an object) and labels (an array of strings).
Schemas ==
  { [ObjectOf([k \in K |-> IF k = kTags THEN p ELSE Point], required)
       EXCEPT !.Title = <<"u","s","e","r","_","p","r","o","f","i","l","e">>,
              !.Definitions = [k \in {kAddress} |-> Point],
              !.Defs = [k \in {kLabels} |-> ArrayOf(Typed(<<"string">>))]] :
      K \in {{kTags}, {kAddress, kTags}}, p \in PropertySchemas,
      required \in {<<>>, <<kTags>>, <<kAddress>>, <<kAddress, kTags>>} }

\* The schema of a property that refers to definitions: the definition
\* address through either prefix, directly or as array items, a definition
\* that is missing or outside the document as array items or as a member of
\* allOf, next to an integer and an inline object.
RefSites ==
  { RefTo("#/definitions/", kAddress), RefTo("#/$defs/", kAddress),
    ArrayOf(RefTo("#/definitions/", kAddress)), ArrayOf(RefTo("#/$defs/", kAddress)),
    Typed(<<"integer">>), Point,
    ArrayOf(RefTo("#/definitions/", kMissing)),
    [Schema EXCEPT !.AllOf = <<RefTo("#/definitions/", kMissing), Point>>],
    [Schema EXCEPT !.AllOf = <<RefTo("common.json#/definitions/", kAddress)>>] }

\* Root objects with the optional properties a and b drawn from RefSites,
\* and the definitions of Schemas.
RefSchemas ==
  { [ObjectOf([k \in {kA, kB} |-> IF k = kA THEN pa ELSE pb], <<>>)
       EXCEPT !.Title = <<"u","s","e","r","_","p","r","o","f","i","l","e">>,
              !.Definitions = [k \in {kAddress} |-> Point],
              !.Defs = [k \in {kLabels} |-> ArrayOf(Typed(<<"string">>))]] :
      pa \in RefSites, pb \in RefSites }

Analyzers == {1, 2}

NoResult == [Structs |-> <<>>, Imports |-> {}, none |-> TRUE]

\* The arguments of the last Analyze call on an Analyzer: none yet.
NoArgs == <<>>

----------------------------------------------------------------------------
(* The state machine                                                       *)

\* Analyze not called on any Analyzer.
AnalyzerIdle ==
  /\ doc = JNull /\ rootName = <<>> /\ unixTimestampsAsTime = FALSE
  /\ analyzers = [i \in Analyzers |-> NewAnalyzer]
  /\ calls = [i \in Analyzers |-> 0]
  /\ ret = [i \in Analyzers |-> NoResult]
  /\ failed = [i \in Analyzers |-> FALSE]
  /\ args = [i \in Analyzers |-> NoArgs]

\* No run under way on an Analyzer.
NoRun == [pc |-> "idle", rootStructName |-> <<>>, keys |-> <<>>, fields |-> <<>>]
RunsIdle == runs = [i \in Analyzers |-> NoRun]

\* No schema given and no Converter built.
NoConverter == [none |-> TRUE]
ConverterIdle ==
  /\ schemaDoc = NoSchema /\ convertName = <<>> /\ converter = NoConverter
  /\ converted = NoResult /\ convertFailed = FALSE

\* No call of singularize on its own.
NoWord == <<"-">>

SingularIdle == word = NoWord /\ singularized = NoWord

\* GenerateStructs not called.
GeneratorIdle == catalog = <<>> /\ code = <<>> /\ generated = FALSE

\* The command not started.
NoFlags == [none |-> TRUE]
CliIdle ==
  /\ cliFlags = NoFlags /\ pc = "idle" /\ stages = <<>>
  /\ inputRead = FALSE /\ codeWritten = FALSE /\ messages = 0
  /\ exitCode = <<>>

\* No conversion followed call by call.
StepIdle ==
  /\ defs = <<>> /\ frames = <<>> /\ resolvedRefs = {} /\ outcome = "idle"

OthersIdle == GeneratorIdle /\ CliIdle /\ StepIdle

Init ==
  /\ OthersIdle
  /\ SingularIdle
  /\ RunsIdle
  /\ ConverterIdle
  /\ \E in \in Inputs : doc = in[1] /\ rootName = in[2]
  /\ unixTimestampsAsTime \in (IF doc \in PrimitiveDocs THEN BOOLEAN ELSE {FALSE})
  /\ analyzers = [i \in Analyzers |-> NewAnalyzer]
  /\ calls = [i \in Analyzers |-> 0]
  /\ ret = [i \in Analyzers |-> NoResult]
  /\ failed = [i \in Analyzers |-> FALSE]
  /\ args = [i \in Analyzers |-> NoArgs]

\* analyzer i runs Analyze(doc, rootName) and returns its analysisResult.
DoAnalyze(i) ==
  /\ calls[i] < MaxCalls
  /\ \E r \in Analyze(analyzers[i], doc, rootName) :
       /\ analyzers' = [analyzers EXCEPT ![i] = r.an]
       /\ ret' = [ret EXCEPT ![i] = IF r.err THEN ErrorResult(r.an) ELSE AnalysisResult(r.an)]
       /\ failed' = [failed EXCEPT ![i] = r.err]
  /\ args' = [args EXCEPT ![i] = <<doc, rootName>>]
  /\ calls' = [calls EXCEPT ![i] = @ + 1]
  /\ UNCHANGED <<doc, rootName, unixTimestampsAsTime, singularVars, runVars, converterVars, otherVars>>

Next == \E i \in Analyzers : DoAnalyze(i)

Spec == Init /\ [][Next]_vars

----------------------------------------------------------------------------
(* One Analyzer used for several documents                                 *)

\* Analyze calls made on one Analyzer with another document.
MaxOtherCalls == 1

\* The arguments of the calls: objects, a timestamp, a nested object, a root
\* array, a primitive, and a document on which Analyze returns an error
\* after it registered the struct of item.
ReuseInputs ==
  { <<JObj([k \in {kA} |-> One]), NameUser>>,
    <<JObj([k \in {kA} |-> JStr(<<"2","0","2","3","-","0","1","-","1","5">>)]), NameUser>>,
    <<JObj([k \in {kItem} |-> ObjX]), NameUser>>,
    <<JArr(<<ObjX>>), NameItems>>,
    <<One, <<>>>>,
    <<JObj([k \in {kItem, kItems} |-> IF k = kItem THEN ObjX ELSE JArr(<<One, JOther>>)]),
      NameUser>> }

InitReuse ==
  /\ OthersIdle
  /\ SingularIdle
  /\ RunsIdle
  /\ ConverterIdle
  /\ \E in \in ReuseInputs : doc = in[1] /\ rootName = in[2]
  /\ unixTimestampsAsTime = FALSE
  /\ analyzers = [i \in Analyzers |-> NewAnalyzer]
  /\ calls = [i \in Analyzers |-> 0]
  /\ ret = [i \in Analyzers |-> NoResult]
  /\ failed = [i \in Analyzers |-> FALSE]
  /\ args = [i \in Analyzers |-> NoArgs]

\* analyzer i, already used, runs Analyze on another document.
AnalyzeAgain(i) ==
  /\ calls[i] >= 1
  /\ calls[i] < MaxCalls + MaxOtherCalls
  /\ \E in \in ReuseInputs :
       /\ \E r \in Analyze(analyzers[i], in[1], in[2]) :
            /\ analyzers' = [analyzers EXCEPT ![i] = r.an]
            /\ ret' = [ret EXCEPT ![i] = IF r.err THEN ErrorResult(r.an)
                                         ELSE AnalysisResult(r.an)]
            /\ failed' = [failed EXCEPT ![i] = r.err]
       /\ args' = [args EXCEPT ![i] = in]
  /\ calls' = [calls EXCEPT ![i] = @ + 1]
  /\ UNCHANGED <<doc, rootName, unixTimestampsAsTime, singularVars, runVars, converterVars, otherVars>>

NextReuse == \E i \in Analyzers : DoAnalyze(i) \/ AnalyzeAgain(i)

SpecReuse == InitReuse /\ [][NextReuse]_vars

----------------------------------------------------------------------------
(* The conversion of a schema                                              *)

\* NewConverter(schema) once the schema is parsed; nothing is converted yet.
InitConvert ==
  /\ OthersIdle
  /\ AnalyzerIdle
  /\ SingularIdle
  /\ RunsIdle
  /\ schemaDoc \in Schemas \cup RefSchemas
  /\ convertName \in {<<>>, NameUser}
  /\ converter = NewConverter(schemaDoc)
  /\ converted = NoResult
  /\ convertFailed = FALSE

\* converted, err := converter.Convert(convertName)
DoConvert ==
  /\ converted = NoResult
  /\ LET r == Convert(converter, convertName)
     IN /\ converter' = r.c
        /\ converted' = IF r.err THEN ErrorResult(r.c) ELSE AnalysisResult(r.c)
        /\ convertFailed' = r.err
  /\ UNCHANGED <<schemaDoc, convertName, analyzerVars, singularVars, runVars, otherVars>>

NextConvert == DoConvert

SpecConvert == InitConvert /\ [][NextConvert]_vars

----------------------------------------------------------------------------
(* Documents and schemas that make Analyze and Convert fail                *)

\* The documents with a value of an unexpected type, and one without.
ErrorInputs == (ErrorDocs \cup {JObj([k \in {kItem} |-> ObjX])}) \X {NameUser}

\* The schemas whose property tags is a reference that does not resolve or
\* points outside the document, or an integer; no property is required.
ErrorSchemas ==
  {s \in Schemas :
     /\ s.Required = <<>>
     /\ s.Properties[kTags] \in {RefTo("#/definitions/", kMissing),
                                 RefTo("common.json#/definitions/", kAddress),
                                 Typed(<<"integer">>)}}

InitErrors ==
  /\ OthersIdle
  /\ SingularIdle
  /\ RunsIdle
  /\ \E in \in ErrorInputs : doc = in[1] /\ rootName = in[2]
  /\ unixTimestampsAsTime = FALSE
  /\ analyzers = [i \in Analyzers |-> NewAnalyzer]
  /\ calls = [i \in Analyzers |-> 0]
  /\ ret = [i \in Analyzers |-> NoResult]
  /\ failed = [i \in Analyzers |-> FALSE]
  /\ args = [i \in Analyzers |-> NoArgs]
  /\ schemaDoc \in ErrorSchemas
  /\ convertName = NameUser
  /\ converter = NewConverter(schemaDoc)
  /\ converted = NoResult
  /\ convertFailed = FALSE

NextErrors == (\E i \in Analyzers : DoAnalyze(i)) \/ DoConvert

SpecErrors == InitErrors /\ [][NextErrors]_vars

----------------------------------------------------------------------------
(* Two Analyzers that run at the same time                                 *)

kId == <<"i","d">>

\* The Config both Analyzers are built with: one type mapping, for the keys
\* that hold id, built by hand (its pattern is not compiled yet).
SharedConfig ==
  [Mappings |-> <<TypeMapping(ReSeq(<<ReChar("i"), ReChar("d")>>),
                              <<"u","u","i","d",".","U","U","I","D">>,
                              "github.com/google/uuid")>>]

\* The arguments of the runs: root objects with a mapped key, nested objects
\* and arrays that generate struct names, a field of an unexpected type
\* after a timestamp, a primitive and a root array.
ConcurrentInputs ==
  { <<JObj([k \in {kId, kItem} |-> IF k = kId THEN JStr(<<"s">>) ELSE ObjX]), NameUser>>,
    <<JObj([k \in {kItem, kItems} |-> IF k = kItem THEN ObjX ELSE JArr(<<ObjX, ObjY>>)]),
      NameUser>>,
    <<JObj([k \in {kA, kItem, kItem1} |->
              IF k = kA THEN One ELSE IF k = kItem THEN JObj([j \in {kX} |-> ObjY]) ELSE ObjY]),
      NameUser>>,
    <<JObj([k \in {kA, kB} |-> IF k = kA THEN JStr(<<"2","0","2","3","-","0","1","-","1","5">>)
                               ELSE JOther]), NameUser>>,
    <<One, <<>>>>,
    <<JArr(<<ObjX>>), NameItems>> }

\* One name registry for every Analyzer.
GlobalRegistry(i) == 1

\* The name registry the steps of analyzer i work on: NewAnalyzer gives each
\* Analyzer a map of its own (structNames: make(map[string]int)).
RegistryOf(i) == i

\* The Analyzer as a step of analyzer i reads it, and the Analyzers after
\* the step has left it as an.
View(i) == [analyzers[i] EXCEPT !.structNames = analyzers[RegistryOf(i)].structNames]
Store(i, an) ==
  [[analyzers EXCEPT ![i] = an] EXCEPT ![RegistryOf(i)].structNames = an.structNames]

InitConcurrent ==
  /\ OthersIdle
  /\ SingularIdle
  /\ RunsIdle
  /\ ConverterIdle
  /\ doc = JNull /\ rootName = <<>> /\ unixTimestampsAsTime = FALSE
  /\ analyzers = [i \in Analyzers |-> NewAnalyzerWithConfig(SharedConfig)]
  /\ calls = [i \in Analyzers |-> 0]
  /\ ret = [i \in Analyzers |-> NoResult]
  /\ failed = [i \in Analyzers |-> FALSE]
  /\ args = [i \in Analyzers |-> NoArgs]

\* Analyze is called on analyzer i and generates the root struct name
\* (lines 68-74); for a root object the keys are sorted (lines 241-246).
StartRun(i) ==
  /\ runs[i].pc = "idle"
  /\ \E in \in ConcurrentInputs :
       LET gen == generateUniqueStructName(View(i),
                    GetFieldName(IF in[2] = <<>> THEN DefaultRootName ELSE in[2]))
       IN /\ args' = [args EXCEPT ![i] = in]
          /\ analyzers' = Store(i, gen.an)
          /\ runs' = [runs EXCEPT ![i] =
                        [pc |-> "node", rootStructName |-> gen.name,
                         keys |-> IF in[1].t = "obj" THEN SortStrings(DOMAIN in[1].f)
                                  ELSE <<>>,
                         fields |-> <<>>]]
  /\ calls' = [calls EXCEPT ![i] = @ + 1]
  /\ UNCHANGED <<doc, rootName, unixTimestampsAsTime, ret, failed, singularVars, converterVars, otherVars>>

\* The run of analyzer i returns.
Return(i, an, err) ==
  /\ analyzers' = Store(i, an)
  /\ ret' = [ret EXCEPT ![i] = IF err THEN ErrorResult(an) ELSE AnalysisResult(an)]
  /\ failed' = [failed EXCEPT ![i] = err]
  /\ runs' = [runs EXCEPT ![i].pc = "done"]

\* One round of the loop of analyzeObject over the keys of the root object
\* (lines 248-303): the field of the next key, or the error return.
AnalyzeField(i) ==
  /\ runs[i].pc = "node"
  /\ runs[i].keys # <<>>
  /\ \E x \in ObjectFields({[fields |-> runs[i].fields, an |-> View(i)]}, args[i][1].f,
                            runs[i].rootStructName, <<Head(runs[i].keys)>>) :
       IF Failed(x)
         THEN Return(i, x.an, TRUE)
         ELSE /\ analyzers' = Store(i, x.an)
              /\ runs' = [runs EXCEPT ![i].fields = x.fields, ![i].keys = Tail(@)]
              /\ UNCHANGED <<ret, failed>>
  /\ UNCHANGED <<doc, rootName, unixTimestampsAsTime, calls, args, singularVars, converterVars, otherVars>>

\* The root object's struct is registered, the IsRoot pass is made and the
\* catalog is returned (lines 305-307 and 121-140).
FinishObject(i) ==
  /\ runs[i].pc = "node"
  /\ args[i][1].t = "obj"
  /\ runs[i].keys = <<>>
  /\ LET name == runs[i].rootStructName
         r == findOrAddStructDef(View(i),
                                 [Name |-> name, Fields |-> runs[i].fields, IsRoot |-> FALSE],
                                 name, TRUE, FALSE)
     IN Return(i, MarkRoot(r.an, args[i][1], name, r.ti), FALSE)
  /\ UNCHANGED <<doc, rootName, unixTimestampsAsTime, calls, args, singularVars, converterVars, otherVars>>

\* A root that is no object is analyzed and the catalog is returned.
AnalyzeValue(i) ==
  /\ runs[i].pc = "node"
  /\ args[i][1].t # "obj"
  /\ \E r \in AnalyzeNamed(View(i), args[i][1], runs[i].rootStructName) :
       Return(i, r.an, r.err)
  /\ UNCHANGED <<doc, rootName, unixTimestampsAsTime, calls, args, singularVars, converterVars, otherVars>>

NextConcurrent ==
  \E i \in Analyzers : StartRun(i) \/ AnalyzeField(i) \/ FinishObject(i) \/ AnalyzeValue(i)

SpecConcurrent == InitConcurrent /\ [][NextConcurrent]_vars

----------------------------------------------------------------------------
(* Properties                                                              *)

\* The result held by analyzer i is that of Analyze on a fresh Analyzer, and
\* Analyze returned no error.
Fresh(i) == calls[i] = 1 /\ ~failed[i]

Structs(i) == ret[i].Structs

StructSet(i) == {Structs(i)[j] : j \in DOMAIN Structs(i)}

\* The fields of a StructDef without their order: key, identifier, tag, type.
FieldSet(s) == {s.Fields[j] : j \in DOMAIN s.Fields}

KeySet(s) == {s.Fields[j].JSONKey : j \in DOMAIN s.Fields}

FieldOf(s, key) == s.Fields[CHOOSE j \in DOMAIN s.Fields : s.Fields[j].JSONKey = key]

\* An array all of whose elements are objects (and there is one).
IsObjectArray(v) ==
  v.t = "arr" /\ Len(v.e) > 0 /\ \A n \in DOMAIN v.e : v.e[n].t = "obj"

ElementKeys(v) == UNION {DOMAIN v.e[n].f : n \in DOMAIN v.e}

InAllElements(v, key) == \A n \in DOMAIN v.e : key \in DOMAIN v.e[n].f

NullInSomeElement(v, key) ==
  \E n \in DOMAIN v.e : key \in DOMAIN v.e[n].f /\ v.e[n].f[key].t = "null"

AllValuesPrimitive(v) ==
  \A n \in DOMAIN v.e : \A k \in DOMAIN v.e[n].f : v.e[n].f[k].t \notin {"obj", "arr"}

\* The StructDef of the root object: the one flagged IsRoot.
RootStruct(i) == CHOOSE s \in StructSet(i) : s.IsRoot

\* The merged StructDef of a root array of objects: the element struct is
\* registered after the structs of its nested fields, so it is the last one.
MergedStruct(i) == Structs(i)[Len(Structs(i))]

\* C1: after Analyze on a fresh Analyzer no two StructDefs of the catalog have
\* the same fields (key, identifier, tag and type, in any order), and two
\* identical object values held by two fields of the root object get one
\* StructDef: both fields have the same type, naming a struct of the catalog.
NoEquivalentStructs ==
  \A i \in Analyzers : Fresh(i) =>
    /\ \A j, k \in DOMAIN Structs(i) :
         j # k => FieldSet(Structs(i)[j]) # FieldSet(Structs(i)[k])
    /\ doc.t = "obj" =>
         \A k1, k2 \in DOMAIN doc.f :
           (doc.f[k1].t = "obj" /\ doc.f[k1] = doc.f[k2]) =>
             /\ FieldOf(RootStruct(i), k1).GoType = FieldOf(RootStruct(i), k2).GoType
             /\ \E s \in StructSet(i) : s.Name = FieldOf(RootStruct(i), k1).GoType.StructName

WitnessNoEquivalentStructs ==
  \E i \in Analyzers :
    /\ Fresh(i)
    /\ doc.t = "obj" /\ DOMAIN doc.f = {kItem, kItem1}
    /\ doc.f[kItem] = ObjX /\ doc.f[kItem1] = ObjX
    /\ Len(Structs(i)) = 2

\* C2: after Analyze on a fresh Analyzer the StructDefs of the catalog have
\* pairwise distinct names.
DistinctStructNames ==
  \A i \in Analyzers : Fresh(i) =>
    \A j, k \in DOMAIN Structs(i) : j # k => Structs(i)[j].Name # Structs(i)[k].Name

\* What a catalog says of its structs: name, and per field key, identifier, tag.
Signature(r) ==
  {[name   |-> r.Structs[j].Name,
    fields |-> [n \in DOMAIN r.Structs[j].Fields |->
                  <<r.Structs[j].Fields[n].JSONKey, r.Structs[j].Fields[n].GoName,
                    r.Structs[j].Fields[n].JSONTag>>]] : j \in DOMAIN r.Structs}

\* C3: two runs on fresh Analyzers with the same document and root name return
\* catalogs with the same struct names, field order and tags.
DeterministicCatalog ==
  (Fresh(1) /\ Fresh(2)) => Signature(ret[1]) = Signature(ret[2])

\* C4: in the merged StructDef of a root array of objects, a field whose key is
\* absent from at least one element is a pointer.
AbsentKeyIsPointer ==
  \A i \in Analyzers : (Fresh(i) /\ IsObjectArray(doc)) =>
    \A key \in ElementKeys(doc) :
      ~InAllElements(doc, key) => FieldOf(MergedStruct(i), key).GoType.IsPointer

\* C5: a field whose literal value was null in the root object, or in at least
\* one element of the root array of objects, is a pointer.
NullValueIsPointer ==
  \A i \in Analyzers : Fresh(i) =>
    /\ doc.t = "obj" =>
         \A key \in DOMAIN doc.f :
           doc.f[key].t = "null" => FieldOf(RootStruct(i), key).GoType.IsPointer
    /\ IsObjectArray(doc) =>
         \A key \in ElementKeys(doc) :
           NullInSomeElement(doc, key) => FieldOf(MergedStruct(i), key).GoType.IsPointer

\* The element StructDef of an array of objects has the union of the keys of
\* the elements; a root array of objects with primitive values only adds that
\* one StructDef to the catalog.
MergedKeysAreUnion(i) ==
  /\ IsObjectArray(doc) =>
       /\ KeySet(MergedStruct(i)) = ElementKeys(doc)
       /\ AllValuesPrimitive(doc) => Len(Structs(i)) = 1
  /\ (doc.t = "obj" /\ kItems \in DOMAIN doc.f /\ IsObjectArray(doc.f[kItems])) =>
       \E s \in StructSet(i) :
         /\ s.Name = FieldOf(RootStruct(i), kItems).GoType.SliceElementType.StructName
         /\ KeySet(s) = ElementKeys(doc.f[kItems])

PresentKeyIsNotPointer ==
  \A i \in Analyzers : (Fresh(i) /\ IsObjectArray(doc)) =>
    \A key \in ElementKeys(doc) :
      (InAllElements(doc, key) /\ ~NullInSomeElement(doc, key)) =>
        ~FieldOf(MergedStruct(i), key).GoType.IsPointer

\* C7 (amended): such a field is not a pointer when its kind is Bool, Int,
\* Float, String or Time, and is a pointer when its kind is Struct or Slice.
PresentPrimitiveKeyIsNotPointer ==
  \A i \in Analyzers : (Fresh(i) /\ IsObjectArray(doc)) =>
    \A key \in ElementKeys(doc) :
      (InAllElements(doc, key) /\ ~NullInSomeElement(doc, key)) =>
        LET t == FieldOf(MergedStruct(i), key).GoType
        IN /\ t.Kind \in {"Bool", "Int", "Float", "String", "Time"} => ~t.IsPointer
           /\ t.Kind \in {"Struct", "Slice"} => t.IsPointer
           /\ t.Kind # "Interface"

WitnessPresentPrimitiveKeyIsNotPointer ==
  \E i \in Analyzers :
    /\ Fresh(i) /\ IsObjectArray(doc) /\ Len(doc.e) = 2
    /\ InAllElements(doc, kA) /\ InAllElements(doc, kB)
    /\ doc.e[1].f[kA] = One /\ doc.e[2].f[kA] = One
    /\ FieldOf(MergedStruct(i), kA).GoType.Kind = "Int"
    /\ FieldOf(MergedStruct(i), kB).GoType.Kind = "Struct"

IsIntegerLiteral(l) ==
  LET d == IF Len(l) > 0 /\ l[1] = "-" THEN Tail(l) ELSE l
  IN Len(d) > 0 /\ \A n \in DOMAIN d : IsNum(d[n])

\* C9: an object with the one primitive field a yields one StructDef with the
\* one field a: Int for an integer, Float for another number, Bool for a
\* boolean (none a pointer), and a pointer Interface for null.
PrimitiveFieldTypes ==
  \A i \in Analyzers :
    (Fresh(i) /\ doc.t = "obj" /\ DOMAIN doc.f = {kA}
       /\ doc.f[kA].t \in {"num", "bool", "null"}) =>
      /\ Len(Structs(i)) = 1
      /\ KeySet(Structs(i)[1]) = {kA}
      /\ LET v == doc.f[kA]
             t == FieldOf(Structs(i)[1], kA).GoType
         IN /\ (v.t = "num" /\ IsIntegerLiteral(v.lit))  => (t.Kind = "Int" /\ ~t.IsPointer)
            /\ (v.t = "num" /\ ~IsIntegerLiteral(v.lit)) => (t.Kind = "Float" /\ ~t.IsPointer)
            /\ v.t = "bool" => (t.Kind = "Bool" /\ ~t.IsPointer)
            /\ v.t = "null" => (t.Kind = "Interface" /\ t.IsPointer)

\* C10: every number whose literal is an integer is inferred as Int, rendered
\* int64, whatever its magnitude; only the other literals are inferred as
\* Float, rendered float64 (as the field a of an object, or at the root).
IntegerLiteralIsInt64 ==
  \A i \in Analyzers : Fresh(i) =>
    LET v == IF doc.t = "obj" /\ DOMAIN doc.f = {kA} THEN doc.f[kA] ELSE doc
        t == Structs(i)[1].Fields[1].GoType
    IN v.t = "num" =>
         IF IsIntegerLiteral(v.lit)
           THEN t.Kind = "Int" /\ t.Name = NameInt64
           ELSE t.Kind = "Float" /\ t.Name = NameFloat64

----------------------------------------------------------------------------
(* Strings, timestamps and the root struct                                 *)

SampleRFC3339 ==
  <<"2","0","2","3","-","0","1","-","1","5","T","1","0",":","3","0",":","0","0","Z">>
SampleDateOnly == <<"2","0","2","3","-","0","1","-","1","5">>
SampleNotTimestamp == <<"n","o","t"," ","a"," ","t","i","m","e","s","t","a","m","p">>
SampleUUID ==
  <<"a","1","b","2","c","3","d","4","-","e","5","f","6","-","7","7","7","7","-",
    "8","8","8","8","-","9","9","9","9","0","0","0","0","a","a","a","a">>
SampleUnixSeconds == <<"1","6","7","4","6","4","1","4","0","0">>
SampleUnixMillis  == <<"1","6","7","4","6","4","1","4","0","0","0","0","0">>

\* The document is a primitive at the root or an object with the one field a.
IsSingleValueDoc == doc.t \notin {"obj", "arr"} \/ (doc.t = "obj" /\ DOMAIN doc.f = {kA})

\* The one value of such a document, and the type inferred for it.
SingleValue == IF doc.t = "obj" THEN doc.f[kA] ELSE doc

SingleType(i) == Structs(i)[1].Fields[1].GoType

\* Some field of the catalog has the Time kind.
HasTimeField(i) ==
  \E s \in StructSet(i) : \E f \in FieldSet(s) : f.GoType.Kind = "Time"

\* C11: whenever a field of the returned catalog has the Time kind, the
\* returned imports hold "time"; the RFC3339-family, date-only and
\* date-space-time strings are inferred as Time with the import, and a plain
\* string or a UUID-shaped string as String with no import.
TimeImportRegistered ==
  \A i \in Analyzers : Fresh(i) =>
    /\ HasTimeField(i) => "time" \in ret[i].Imports
    /\ (IsSingleValueDoc /\ SingleValue.t = "str") =>
         /\ SingleValue.s \in {SampleRFC3339, SampleDateOnly} \cup TimeFormatSamples =>
              /\ SingleType(i).Kind = "Time" /\ SingleType(i).Name = NameTime
              /\ "time" \in ret[i].Imports
         /\ SingleValue.s \in {SampleNotTimestamp, SampleUUID, <<"s">>} =>
              /\ SingleType(i).Kind = "String" /\ SingleType(i).Name = NameString
              /\ ret[i].Imports = {}

WitnessTimeImportRegistered ==
  \E i \in Analyzers :
    /\ Fresh(i) /\ doc.t = "obj" /\ DOMAIN doc.f = {kA}
    /\ doc.f[kA] = JStr(SampleRFC3339)
    /\ SingleType(i).Kind = "Time"
    /\ ret[i].Imports = {"time"}

\* C12: a Unix-timestamp shaped integer (10 or 13 digits) is Int, int64, with
\* no time import under the default configuration, and Time, time.Time, with
\* the time import when UnixTimestampsAsTime is set; 42 is Int under both.
UnixTimestampPolicy ==
  \A i \in Analyzers : (Fresh(i) /\ IsSingleValueDoc /\ SingleValue.t = "num") =>
    /\ SingleValue.lit \in {SampleUnixSeconds, SampleUnixMillis} =>
         IF unixTimestampsAsTime
           THEN /\ SingleType(i).Kind = "Time" /\ SingleType(i).Name = NameTime
                /\ "time" \in ret[i].Imports
           ELSE /\ SingleType(i).Kind = "Int" /\ SingleType(i).Name = NameInt64
                /\ "time" \notin ret[i].Imports
    /\ SingleValue.lit = <<"4","2">> =>
         SingleType(i).Kind = "Int" /\ SingleType(i).Name = NameInt64

\* C13: a string in one of the US, European, ISO8601 basic, week or ordinal,
\* time-of-day or month-name formats is inferred as Time with the time import,
\* and "2023", "12345" and "2023/13/45" as String.
ExtendedFormatsAreTime ==
  \A i \in Analyzers : (Fresh(i) /\ IsSingleValueDoc /\ SingleValue.t = "str") =>
    /\ SingleValue.s \in ExtendedTimeSamples =>
         SingleType(i).Kind = "Time" /\ "time" \in ret[i].Imports
    /\ SingleValue.s \in NotTimeSamples => SingleType(i).Kind = "String"

\* The structs of the catalog flagged IsRoot.
RootStructs(i) == {j \in DOMAIN Structs(i) : Structs(i)[j].IsRoot}

----------------------------------------------------------------------------
(* Arrays that are not made of objects only                                *)

\* The TypeInfo inferred for v on its own (v is no object: the result does
\* not depend on the structs registered so far).
ElementTypeAlone(v) ==
  (CHOOSE r \in analyzeNode(NewAnalyzer, v, <<>>, FALSE, TRUE) : TRUE).ti

\* Two elements whose independently inferred types are not equivalent.
HasDifferentElements(e) ==
  \E m, n \in DOMAIN e :
    \/ (e[m].t = "obj") # (e[n].t = "obj")
    \/ /\ e[m].t # "obj" /\ e[n].t # "obj"
       /\ ~areTypeInfosEqual(ElementTypeAlone(e[m]), ElementTypeAlone(e[n]))

\* The array fields of the root object that are not arrays of objects.
PlainArrayKeys ==
  IF doc.t = "obj"
    THEN {k \in DOMAIN doc.f : doc.f[k].t = "arr" /\ ~IsObjectArray(doc.f[k])}
    ELSE {}

\* C15: an empty array is a nullable slice of interface{}; an array whose
\* elements have pairwise equivalent types is a slice of that common type;
\* an array with two elements of non-equivalent types is []interface{}.
SliceOfCommonTypeOrAny ==
  \A i \in Analyzers : Fresh(i) =>
    \A k \in PlainArrayKeys :
      LET e == doc.f[k].e
          t == FieldOf(RootStruct(i), k).GoType
          any == t.Name = <<"[","]">> \o NameInterface
                   /\ t.SliceElementType.Kind = "Interface"
      IN /\ t.Kind = "Slice" /\ t.IsPointer
         /\ e = <<>> => any
         /\ (e # <<>> /\ HasDifferentElements(e)) => any
         /\ (e # <<>> /\ ~HasDifferentElements(e)) =>
              LET c == ElementTypeAlone(e[1])
              IN /\ t.Name = <<"[","]">> \o (IF c.IsPointer /\ c.Kind # "Slice" THEN <<"*">> ELSE <<>>) \o c.Name
                 /\ c.Kind # "Slice" => t.SliceElementType = c

\* The array fields of the root object whose elements are all arrays.
ArrayOfArraysKeys ==
  IF doc.t = "obj"
    THEN {k \in DOMAIN doc.f :
            /\ doc.f[k].t = "arr" /\ doc.f[k].e # <<>>
            /\ \A n \in DOMAIN doc.f[k].e : doc.f[k].e[n].t = "arr"}
    ELSE {}

\* C26: an array whose elements are all inferred as slices collapses to one
\* slice type around the common inner element type only if the element types
\* of all inner slices are equivalent; when two inner slices have
\* non-equivalent element types the array is []interface{} and is not typed
\* after its first inner slice.
NestedSlicesCollapseOnlyWhenEquivalent ==
  \A i \in Analyzers : Fresh(i) =>
    \A k \in ArrayOfArraysKeys :
      LET e == doc.f[k].e
          t == FieldOf(RootStruct(i), k).GoType
          inner(n) == ElementTypeAlone(e[n]).SliceElementType
      IN IF \A m, n \in DOMAIN e : areTypeInfosEqual(inner(m), inner(n))
           THEN /\ t.Kind = "Slice"
                /\ t.Name = <<"[","]">> \o ElementTypeAlone(e[1]).Name
                /\ t.SliceElementType = inner(1)
           ELSE /\ t.Kind = "Slice"
                /\ t.Name = <<"[","]">> \o NameInterface
                /\ t.SliceElementType.Kind = "Interface"

----------------------------------------------------------------------------
(* What the returned catalog holds beyond what it uses                     *)

\* A TypeInfo of the Time kind, directly or as the element type of a slice.
IsTimeType(t) ==
  \/ t.Kind = "Time"
  \/ t.Kind = "Slice" /\ t.SliceElementType.Kind = "Time"

\* C27: the import set returned by Analyze holds only required imports: with
\* no type mapping configured, "time" is in the set only if some field of
\* some StructDef of the returned catalog has the Time kind, directly or as
\* the element type of a slice.
OnlyRequiredImports ==
  \A i \in Analyzers : Fresh(i) =>
    ("time" \in ret[i].Imports =>
       \E s \in StructSet(i) : \E j \in DOMAIN s.Fields : IsTimeType(s.Fields[j].GoType))

\* The TypeInfo t names the struct called name, directly or as the element
\* type of a slice.
RefersTo(t, name) ==
  \/ t.Kind = "Struct" /\ t.Name = name
  \/ t.Kind = "Slice" /\ t.SliceElementType.Kind = "Struct"
       /\ t.SliceElementType.Name = name

\* C29: every StructDef of the catalog returned by Analyze is in use: it is
\* the root struct, or the element type of the root array, or a field of
\* another StructDef of the catalog refers to it, directly or as the element
\* type of a slice.
EveryStructIsInUse ==
  \A i \in Analyzers : Fresh(i) =>
    \A j \in DOMAIN Structs(i) :
      LET s == Structs(i)[j]
      IN \/ s.IsRoot
         \/ IsObjectArray(doc) /\ j = Len(Structs(i))
         \/ \E k \in DOMAIN Structs(i) \ {j} :
              \E f \in FieldSet(Structs(i)[k]) : RefersTo(f.GoType, s.Name)

----------------------------------------------------------------------------
(* singularize on its own                                                  *)

\* Suggested names: stems with and without a plural ending, the words of
\* knownSingulars, each also with a capital first letter.
Stems ==
  { <<"i","t","e","m">>,
    <<"u","s","e","r">>,
    <<"c","i","t">>,
    <<"p","r","o","p","e","r","t">>,
    <<"c","a","t","e","g","o","r">>,
    <<"b","o","x">>,
    <<"c","l","a","s","s">>,
    <<"w","a","t","c","h">>,
    <<"b","u">>,
    <<"a","n","a","l","y","s">>,
    <<"v","i","r","u">>,
    <<"t">> }

Endings == {<<>>, <<"s">>, <<"e","s">>, <<"i","e","s">>, <<"s","s">>, <<"u","s">>, <<"i","s">>}

Capitalized(w) == <<ToUpperCh(w[1])>> \o Tail(w)

LowerWords ==
  {st \o e : st \in Stems, e \in Endings} \cup {p[1] : p \in knownSingulars}
    \cup {<<"p","e","r","s","o","n">>, <<"i","e","s">>, <<"s">>}

Words == LowerWords \cup {Capitalized(w) : w \in LowerWords}

InitSingularize ==
  /\ OthersIdle
  /\ AnalyzerIdle
  /\ RunsIdle
  /\ ConverterIdle
  /\ word \in Words
  /\ singularized = NoWord

\* singularized := singularize(word)
Singularize ==
  /\ singularized = NoWord
  /\ singularized' = singularize(word)
  /\ UNCHANGED <<word, analyzerVars, runVars, converterVars, otherVars>>

NextSingularize == Singularize

SpecSingularize == InitSingularize /\ [][NextSingularize]_vars

IsIrregular(w) == \E p \in knownSingulars : p[1] = ToLower(w)

\* The plural ending is -es: after x, ch, sh or ss.
EndsInSibilantEs(w) ==
  \/ HasSuffix(ToLower(w), <<"x","e","s">>)
  \/ HasSuffix(ToLower(w), <<"c","h","e","s">>)
  \/ HasSuffix(ToLower(w), <<"s","h","e","s">>)
  \/ HasSuffix(ToLower(w), <<"s","s","e","s">>)

\* C16: irregular forms come from the table (Series, Addresses, children,
\* data); otherwise -ies gives -y, a name in -ss, -us or -is is unchanged,
\* and otherwise the plural ending (-es after x, ch, sh, ss; else -s) is
\* stripped; the capitalisation of the first letter is kept.
SingularizeRules ==
  singularized # NoWord =>
    LET lw == ToLower(word)
    IN /\ word = <<"S","e","r","i","e","s">> => singularized = <<"S","e","r","i","e","s">>
       /\ word = <<"A","d","d","r","e","s","s","e","s">> => singularized = <<"A","d","d","r","e","s","s">>
       /\ word = <<"c","h","i","l","d","r","e","n">> => singularized = <<"c","h","i","l","d">>
       /\ word = <<"d","a","t","a">> => singularized = <<"d","a","t","a">>
       /\ word = <<"P","r","o","p","e","r","t","i","e","s">> => singularized = <<"P","r","o","p","e","r","t","y">>
       /\ word = <<"C","i","t","i","e","s">> => singularized = <<"C","i","t","y">>
       /\ word = <<"I","t","e","m","s">> => singularized = <<"I","t","e","m">>
       /\ word = <<"u","s","e","r","s">> => singularized = <<"u","s","e","r">>
       /\ ~IsIrregular(word) =>
            IF HasSuffix(lw, <<"i","e","s">>) /\ Len(lw) > 3
              THEN singularized = DropLast(word, 3) \o <<"y">>
            ELSE IF \/ HasSuffix(lw, <<"s","s">>) \/ HasSuffix(lw, <<"u","s">>)
                    \/ HasSuffix(lw, <<"i","s">>)
              THEN singularized = word
            ELSE IF EndsInSibilantEs(word) THEN singularized = DropLast(word, 2)
            ELSE IF HasSuffix(lw, <<"s">>) /\ Len(lw) > 1 THEN singularized = DropLast(word, 1)
            ELSE TRUE
       /\ IsCap(singularized[1]) <=> IsCap(word[1])

----------------------------------------------------------------------------
(* Errors                                                                  *)

\* C19: when Analyze or Convert returns an error, the catalog returned with
\* it has no StructDef and no import, whatever had been registered before
\* the failing node was reached.
NoPartialCatalogOnError ==
  /\ \A i \in Analyzers : failed[i] => (ret[i].Structs = <<>> /\ ret[i].Imports = {})
  /\ convertFailed => (converted.Structs = <<>> /\ converted.Imports = {})

\* Analyze and Convert have both returned an error after a StructDef was
\* registered.
WitnessNoPartialCatalogOnError ==
  /\ \E i \in Analyzers :
       failed[i] /\ analyzers[i].structs # <<>> /\ ret[i].Structs = <<>>
  /\ convertFailed /\ converter.structs # <<>> /\ converted.Structs = <<>>

----------------------------------------------------------------------------
(* Runs that share an Analyzer                                             *)

\* What Analyze returns for the arguments in on the Analyzer an.
ResultsOn(an, in) ==
  {IF r.err THEN ErrorResult(r.an) ELSE AnalysisResult(r.an) :
     r \in Analyze(an, in[1], in[2])}

\* What Analyze returns for the arguments in on an Analyzer of its own.
ResultsAlone(in) == ResultsOn(NewAnalyzer, in)

\* C17: the catalog returned by a later Analyze call on the same Analyzer is
\* a catalog that a run of its own on that document returns: no StructDef
\* and no import of an earlier document, no name suffixed because of one.
ReturnedCatalogIsOfThisRun ==
  \A i \in Analyzers : calls[i] >= 2 => ret[i] \in ResultsAlone(args[i])

----------------------------------------------------------------------------
(* Runs at the same time on two Analyzers                                  *)

\* analyzer i is in the middle of its run.
Running(i) == runs[i].pc = "node"

\* C18: whatever the interleaving of the steps of the two runs, a run that
\* has returned has returned a catalog that Analyze returns for its
\* arguments when it runs alone on a new Analyzer with the same Config; and
\* a step of one run leaves the other Analyzer as it was.
ConcurrentRunsAreIndependent ==
  /\ [](\A i \in Analyzers :
          runs[i].pc = "done" =>
            ret[i] \in ResultsOn(NewAnalyzerWithConfig(SharedConfig), args[i]))
  /\ [][\A i \in Analyzers : runs'[i] = runs[i] => analyzers'[i] = analyzers[i]]_vars

\* A run has returned a catalog of two structs or more while the run of the
\* other Analyzer, on another document, stands between two fields.
WitnessConcurrentRunsAreIndependent ==
  \E i, j \in Analyzers :
    /\ runs[i].pc = "done" /\ ~failed[i] /\ Len(ret[i].Structs) >= 2
    /\ Running(j) /\ runs[j].fields # <<>> /\ runs[j].keys # <<>>
    /\ args[i] # args[j]

----------------------------------------------------------------------------
(* Properties of an object schema                                          *)

\* Convert has returned a catalog, not an error.
Converted == converted # NoResult /\ ~convertFailed

\* The StructDef of the root object schema, and its field for a property.
ConvertedRoot == converted.Structs[CHOOSE i \in DOMAIN converted.Structs :
                                     converted.Structs[i].IsRoot]
PropertyField(key) ==
  ConvertedRoot.Fields[CHOOSE i \in DOMAIN ConvertedRoot.Fields :
                         ConvertedRoot.Fields[i].JSONKey = key]

\* The property is listed in required; it carries a nullable marker.
ListedRequired(key) == \E i \in DOMAIN schemaDoc.Required : schemaDoc.Required[i] = key
MarkedNullable(key) ==
  \/ schemaDoc.Properties[key].Nullable
  \/ "null" \in Range(schemaDoc.Properties[key].Type)

\* C20: in the StructDef of an object schema, a property listed in required,
\* without a nullable marker, has IsPointer=false whatever its type; a
\* property that is not listed in required or carries a nullable marker has
\* IsPointer=true.
RequiredPropertyIsNotPointer ==
  Converted =>
    \A key \in DOMAIN schemaDoc.Properties :
      PropertyField(key).GoType.IsPointer <=> (~ListedRequired(key) \/ MarkedNullable(key))

----------------------------------------------------------------------------
(* References to definitions                                               *)

NameAddress == <<"A","d","d","r","e","s","s">>

\* The property schema refers to the definition address through a local
\* $ref, as the property itself or as its array items.
RefersToAddress(p) ==
  LET IsRef(q) == /\ q # NoSchema
                  /\ q.Ref # NoRef
                  /\ q.Ref[1] \in {"#/definitions/", "#/$defs/"}
                  /\ q.Ref[2] = kAddress
  IN IsRef(p) \/ IsRef(p.Items)

\* The StructDefs made for the definition address: named Address, with or
\* without digits after it.
AddressStructs ==
  {i \in DOMAIN converted.Structs :
     LET name == converted.Structs[i].Name
     IN /\ Len(name) >= Len(NameAddress)
        /\ SubSeq(name, 1, Len(NameAddress)) = NameAddress
        /\ \A j \in (Len(NameAddress) + 1)..Len(name) : IsNum(name[j])}

\* The struct a field refers to, directly or as the element of its slice.
ReferencedStruct(ti) ==
  IF ti.Kind = "Slice" THEN ti.SliceElementType.StructName ELSE ti.StructName

\* C21: a definition referenced through $ref sites of either form, as a
\* property or as array items, however many times, has exactly one
\* StructDef in the catalog, named without a numeric suffix, and every
\* referencing site carries that name.
OneStructPerDefinition ==
  LET sites == {k \in DOMAIN schemaDoc.Properties : RefersToAddress(schemaDoc.Properties[k])}
  IN (Converted /\ sites # {}) =>
       /\ Cardinality(AddressStructs) = 1
       /\ \A i \in AddressStructs : converted.Structs[i].Name = NameAddress
       /\ \A k \in sites : ReferencedStruct(PropertyField(k).GoType) = NameAddress

\* A $ref that is external or names no definition, in the schema s: as s
\* itself, in a property, in the array items or in a member of allOf.
RECURSIVE HasUnresolvableRef(_)
HasUnresolvableRef(s) ==
  IF s = NoSchema THEN FALSE
  ELSE IF s.Ref # NoRef
    THEN ~(/\ s.Ref[1] \in {"#/definitions/", "#/$defs/"}
           /\ s.Ref[2] \in DOMAIN schemaDoc.Definitions \cup DOMAIN schemaDoc.Defs)
  ELSE \/ \E k \in DOMAIN s.Properties : HasUnresolvableRef(s.Properties[k])
       \/ HasUnresolvableRef(s.Items)
       \/ \E i \in DOMAIN s.AllOf : HasUnresolvableRef(s.AllOf[i])

\* C22: when the schema holds an external $ref or a $ref to a definition
\* that does not exist, as a property, as array items or as a member of
\* allOf, Convert returns an error.
UnresolvableRefIsAnError ==
  (converted # NoResult /\ HasUnresolvableRef(schemaDoc)) => convertFailed

\* C28: Convert returns no two structurally equivalent StructDefs.
NoEquivalentConvertedStructs ==
  Converted =>
    \A i, j \in DOMAIN converted.Structs :
      i # j => ~areStructDefsEquivalent(converted.Structs[i], converted.Structs[j])

----------------------------------------------------------------------------
(* The order of the elements of a merged array                             *)

\* The key, type and tag of the fields of the StructDef registered last,
\* which for a root array of objects is the merged StructDef.
MergedFields(result) ==
  {[JSONKey |-> f.JSONKey, GoType |-> f.GoType, JSONTag |-> f.JSONTag] :
     f \in FieldSet(result.Structs[Len(result.Structs)])}

\* C30: merging an array of objects is independent of the order of its
\* elements: for a root array of objects and every order of its elements,
\* the merged StructDef has the same field keys, the same type for each key
\* and the same tags; that is, the fields Analyze has returned are fields it
\* returns for every other order of the elements too.
MergeIsOrderIndependent ==
  \A i \in Analyzers : (Fresh(i) /\ IsObjectArray(doc)) =>
    \A e \in Arrangements(doc.e) :
      MergedFields(ret[i]) \in
        {MergedFields(r) : r \in {q \in ResultsAlone(<<JArr(e), rootName>>) : q.Structs # <<>>}}

----------------------------------------------------------------------------
(* The generator: the order of the struct declarations                     *)

\* The largest catalog handed to GenerateStructs.
MaxStructs == 3

NameZip  == <<"Z","i","p">>
NameItem == <<"i","t","e","m">>

\* The struct names of the catalogs; a root name is the caller's and may start
\* with a lower-case letter.
StructNames == {NameAddress, NameUser, NameZip, NameItem}

\* The catalogs GenerateStructs is run on: up to MaxStructs StructDefs of
\* distinct names in any order, each root or not.
Catalogs ==
  UNION { { c \in [1..n -> [Name : StructNames, Fields : {<<>>}, IsRoot : BOOLEAN]] :
              \A i, j \in 1..n : i # j => c[i].Name # c[j].Name } : n \in 0..MaxStructs }

\* A comparison that leaves the root flag out.
NameLess(a, b) == StrLess(a.Name, b.Name)

\* The less function sortStructs hands to sort.Slice.
StructLess(a, b) ==
  IF a.IsRoot # b.IsRoot THEN a.IsRoot ELSE StrLess(a.Name, b.Name)

\* sortStructs(structs): sort.Slice on a copy; the sort is not stable, so the
\* result is any order of the elements in which none is less than an earlier
\* one.
sortStructs(structs) ==
  { t \in Arrangements(structs) :
      \A i, j \in DOMAIN t : i < j => ~StructLess(t[j], t[i]) }

\* GenerateStructs(result, packageName): the results it may return, each the
\* sequence of the "type <Name> struct" declarations in the order they are
\* written to the buffer (lines 68-115).
GenerateStructs(result) == sortStructs(result.Structs)

InitGenerate ==
  /\ AnalyzerIdle /\ SingularIdle /\ RunsIdle /\ ConverterIdle
  /\ CliIdle /\ StepIdle
  /\ catalog \in Catalogs
  /\ code = <<>>
  /\ generated = FALSE

\* code, err := generatorInst.GenerateStructs(analysisResult, package)
DoGenerate ==
  /\ ~generated
  /\ code' \in GenerateStructs([Structs |-> catalog, Imports |-> {}])
  /\ generated' = TRUE
  /\ UNCHANGED <<catalog, analyzerVars, singularVars, runVars, converterVars, cliVars, stepVars>>

NextGenerate == DoGenerate

SpecGenerate == InitGenerate /\ [][NextGenerate]_vars

----------------------------------------------------------------------------
(* The command-line run                                                    *)

\* The flags of a command line and what the command finds around it: which
\* of --version, --input, --url, --schema, --format and --interactive are
\* given, whether the configuration enables formatting and whether the
\* standard input is piped.
CommandLines ==
  [Version : BOOLEAN, Input : BOOLEAN, URL : BOOLEAN, Schema : BOOLEAN,
   Format : BOOLEAN, Formatting : BOOLEAN, Interactive : BOOLEAN,
   Piped : BOOLEAN]

\* A check that lets every combination of sources through.
NeverConflicting(f) == FALSE

\* The "conflicting input sources" checks of parseSchema and parseInput.
ConflictingSources(f) ==
  IF f.Schema THEN f.Input \/ f.URL ELSE f.Input /\ f.URL

\* parseInput without a file or a URL: a terminal on the standard input
\* without the interactive mode is "no input provided".
NoInputProvided(f) ==
  ~f.Schema /\ ~f.Input /\ ~f.URL /\ ~f.Piped /\ ~f.Interactive

\* if CLI.Format && ctx.Config.Formatting.Enabled
FormatWanted(f) == f.Format /\ f.Formatting

InitCommand ==
  /\ AnalyzerIdle /\ SingularIdle /\ RunsIdle /\ ConverterIdle
  /\ GeneratorIdle /\ StepIdle
  /\ cliFlags \in CommandLines
  /\ pc = "main"
  /\ stages = <<>>
  /\ inputRead = FALSE
  /\ codeWritten = FALSE
  /\ messages = 0
  /\ exitCode = <<>>

\* main: the version is printed and main returns.
ShowVersion ==
  /\ pc = "main" /\ cliFlags.Version
  /\ pc' = "exited"
  /\ exitCode' = <<0>>
  /\ UNCHANGED <<cliFlags, stages, inputRead, codeWritten, messages>>
  /\ UNCHANGED <<analyzerVars, singularVars, runVars, converterVars, genVars, stepVars>>

\* main: createContext loads the configuration; a failure is printed and the
\* process exits.
CreateContext ==
  /\ pc = "main" /\ ~cliFlags.Version
  /\ \E ok \in BOOLEAN :
       IF ok THEN pc' = "input" /\ UNCHANGED <<messages, exitCode>>
       ELSE pc' = "exited" /\ messages' = messages + 1 /\ exitCode' = <<1>>
  /\ UNCHANGED <<cliFlags, stages, inputRead, codeWritten>>
  /\ UNCHANGED <<analyzerVars, singularVars, runVars, converterVars, genVars, stepVars>>

\* run: the first part of parseSchema or parseInput, up to the parsed schema
\* or document.  The checks come before the file, the URL or the standard
\* input is read.
ParseInput ==
  /\ pc = "input"
  /\ stages' = Append(stages, "input")
  /\ IF ConflictingSources(cliFlags) \/ NoInputProvided(cliFlags)
     THEN pc' = "failed" /\ UNCHANGED inputRead
     ELSE /\ inputRead' = TRUE
          /\ \E ok \in BOOLEAN : pc' = IF ok THEN "analysis" ELSE "failed"
  /\ UNCHANGED <<cliFlags, codeWritten, messages, exitCode>>
  /\ UNCHANGED <<analyzerVars, singularVars, runVars, converterVars, genVars, stepVars>>

\* run: converter.Convert(rootName) of parseSchema, or analyzerInst.Analyze.
AnalyzeInput ==
  /\ pc = "analysis"
  /\ stages' = Append(stages, "analysis")
  /\ \E ok \in BOOLEAN : pc' = IF ok THEN "generation" ELSE "failed"
  /\ UNCHANGED <<cliFlags, inputRead, codeWritten, messages, exitCode>>
  /\ UNCHANGED <<analyzerVars, singularVars, runVars, converterVars, genVars, stepVars>>

\* run: generatorInst.GenerateStructs, which returns no error, and then the
\* test of the formatting flags.
GenerateCode ==
  /\ pc = "generation"
  /\ stages' = Append(stages, "generation")
  /\ pc' = IF FormatWanted(cliFlags) THEN "formatting" ELSE "output"
  /\ UNCHANGED <<cliFlags, inputRead, codeWritten, messages, exitCode>>
  /\ UNCHANGED <<analyzerVars, singularVars, runVars, converterVars, genVars, stepVars>>

\* run: formatterInst.Format(code)
FormatCode ==
  /\ pc = "formatting"
  /\ stages' = Append(stages, "formatting")
  /\ \E ok \in BOOLEAN : pc' = IF ok THEN "output" ELSE "failed"
  /\ UNCHANGED <<cliFlags, inputRead, codeWritten, messages, exitCode>>
  /\ UNCHANGED <<analyzerVars, singularVars, runVars, converterVars, genVars, stepVars>>

\* run: writeOutput(code), to the file or to the standard output.
WriteOutput ==
  /\ pc = "output"
  /\ stages' = Append(stages, "output")
  /\ \E ok \in BOOLEAN :
       /\ codeWritten' = ok
       /\ pc' = IF ok THEN "returned" ELSE "failed"
  /\ UNCHANGED <<cliFlags, inputRead, messages, exitCode>>
  /\ UNCHANGED <<analyzerVars, singularVars, runVars, converterVars, genVars, stepVars>>

\* main: run returned an error; the message of UserFriendlyError is printed,
\* followed by the pointer to --help, and os.Exit(1).
ReportError ==
  /\ pc = "failed"
  /\ messages' = messages + 1
  /\ exitCode' = <<1>>
  /\ pc' = "exited"
  /\ UNCHANGED <<cliFlags, stages, inputRead, codeWritten>>
  /\ UNCHANGED <<analyzerVars, singularVars, runVars, converterVars, genVars, stepVars>>

\* main: run returned nil and main returns.
ReturnFromMain ==
  /\ pc = "returned"
  /\ exitCode' = <<0>>
  /\ pc' = "exited"
  /\ UNCHANGED <<cliFlags, stages, inputRead, codeWritten, messages>>
  /\ UNCHANGED <<analyzerVars, singularVars, runVars, converterVars, genVars, stepVars>>

NextCommand ==
  \/ ShowVersion
  \/ CreateContext
  \/ ParseInput
  \/ AnalyzeInput
  \/ GenerateCode
  \/ FormatCode
  \/ WriteOutput
  \/ ReportError
  \/ ReturnFromMain

SpecCommand == InitCommand /\ [][NextCommand]_vars

\* The stages of a run that succeeds, in their order.
StagesOf(f) ==
  <<"input", "analysis", "generation">>
    \o (IF f.Format /\ f.Formatting THEN <<"formatting">> ELSE <<>>)
    \o <<"output">>

IsPrefix(s, t) == Len(s) <= Len(t) /\ s = SubSeq(t, 1, Len(s))

\* A file and a URL are given together, or a schema with either.
SourcesConflict ==
  \/ cliFlags.Input /\ cliFlags.URL
  \/ cliFlags.Schema /\ (cliFlags.Input \/ cliFlags.URL)

----------------------------------------------------------------------------
(* Convert call by call: definitions that refer to each other              *)

\* The schemas followed call by call are object schemas whose properties are
\* a string ("leaf"), a $ref "#/definitions/<name>" to one of the definitions
\* DefNames (written <name>), or a $ref to a definition that is not there
\* ("missing").  defs maps "#", the root schema, and each definition to the
\* sequence of its properties in sorted order.
DefNames == {"edge", "node"}
Targets  == DefNames \cup {"leaf", "missing"}

\* The longest chain of convertObject calls followed.  A chain longer than
\* the number of schemas repeats a definition and never ends by itself: in
\* the program it grows until the goroutine stack is exhausted and the
\* runtime stops the process.
MaxDepth == 4

SeqsUpTo(S, n) == UNION { [1..k -> S] : k \in 0..n }

CyclicSchemas ==
  { d \in [DefNames \cup {"#"} -> SeqsUpTo(Targets, 2)] :
      /\ Len(d["#"]) >= 1
      /\ Len(d["edge"]) <= 1 }

InitSteps ==
  /\ AnalyzerIdle /\ SingularIdle /\ RunsIdle /\ ConverterIdle
  /\ GeneratorIdle /\ CliIdle
  /\ defs \in CyclicSchemas
  /\ frames = <<>>
  /\ resolvedRefs = {}
  /\ outcome = "idle"

\* The call of convertObject under way and the property it has reached.
Top == frames[Len(frames)]
AtProperty == outcome = "running" /\ frames # <<>> /\ Top.rest # <<>>
Advance(fs) == [fs EXCEPT ![Len(fs)].rest = Tail(@)]

\* Convert(rootName): convertSchema(c.schema, rootName, true) enters
\* convertObject for the root schema.
CallConvert ==
  /\ outcome = "idle"
  /\ outcome' = "running"
  /\ frames' = <<[def |-> "#", rest |-> defs["#"]]>>
  /\ UNCHANGED <<defs, resolvedRefs>>
  /\ UNCHANGED <<analyzerVars, singularVars, runVars, converterVars, genVars, cliVars>>

\* convertObject: a property without $ref is converted on the spot.
ConvertLeaf ==
  /\ AtProperty /\ Head(Top.rest) = "leaf"
  /\ frames' = Advance(frames)
  /\ UNCHANGED <<defs, resolvedRefs, outcome>>
  /\ UNCHANGED <<analyzerVars, singularVars, runVars, converterVars, genVars, cliVars>>

\* resolveRef: the ref is in c.resolvedRefs and the cached type is returned.
CacheHit ==
  /\ AtProperty /\ Head(Top.rest) \in resolvedRefs
  /\ frames' = Advance(frames)
  /\ UNCHANGED <<defs, resolvedRefs, outcome>>
  /\ UNCHANGED <<analyzerVars, singularVars, runVars, converterVars, genVars, cliVars>>

\* resolveRef: the ref is not in c.resolvedRefs; the definition is found and
\* convertSchema enters convertObject for it.
EnterDefinition ==
  /\ AtProperty
  /\ Head(Top.rest) \in DefNames \ resolvedRefs
  /\ Len(frames) < MaxDepth
  /\ frames' = Append(frames, [def |-> Head(Top.rest), rest |-> defs[Head(Top.rest)]])
  /\ UNCHANGED <<defs, resolvedRefs, outcome>>
  /\ UNCHANGED <<analyzerVars, singularVars, runVars, converterVars, genVars, cliVars>>

\* The same call with the stack exhausted: the process is stopped and Convert
\* returns nothing.
StackOverflow ==
  /\ AtProperty
  /\ Head(Top.rest) \in DefNames \ resolvedRefs
  /\ Len(frames) >= MaxDepth
  /\ outcome' = "overflow"
  /\ UNCHANGED <<defs, frames, resolvedRefs>>
  /\ UNCHANGED <<analyzerVars, singularVars, runVars, converterVars, genVars, cliVars>>

\* resolveRef: "unresolved $ref"; the error goes up through every caller and
\* Convert returns it.
UnresolvedRef ==
  /\ AtProperty /\ Head(Top.rest) = "missing"
  /\ outcome' = "error"
  /\ frames' = <<>>
  /\ UNCHANGED <<defs, resolvedRefs>>
  /\ UNCHANGED <<analyzerVars, singularVars, runVars, converterVars, genVars, cliVars>>

\* convertObject returns for a definition: resolveRef stores the type under
\* the ref (c.resolvedRefs[ref] = typeInfo) and the caller goes on with its
\* next property.
LeaveDefinition ==
  /\ outcome = "running" /\ Len(frames) > 1 /\ Top.rest = <<>>
  /\ resolvedRefs' = resolvedRefs \cup {Top.def}
  /\ frames' = Advance(SubSeq(frames, 1, Len(frames) - 1))
  /\ UNCHANGED <<defs, outcome>>
  /\ UNCHANGED <<analyzerVars, singularVars, runVars, converterVars, genVars, cliVars>>

\* convertObject returns for the root schema and Convert returns the catalog.
ReturnCatalog ==
  /\ outcome = "running" /\ Len(frames) = 1 /\ Top.rest = <<>>
  /\ outcome' = "returned"
  /\ frames' = <<>>
  /\ UNCHANGED <<defs, resolvedRefs>>
  /\ UNCHANGED <<analyzerVars, singularVars, runVars, converterVars, genVars, cliVars>>

NextSteps ==
  \/ CallConvert
  \/ ConvertLeaf
  \/ CacheHit
  \/ EnterDefinition
  \/ StackOverflow
  \/ UnresolvedRef
  \/ LeaveDefinition
  \/ ReturnCatalog

\* Convert runs on one goroutine that is never held back: a call that can
\* take a step takes it.
SpecSteps == InitSteps /\ [][NextSteps]_vars /\ WF_vars(NextSteps)

\* C25: schema conversion terminates for every finite schema document:
\* Convert eventually returns a catalog or an error, also when a definition
\* refers to itself through $ref, directly or through other definitions.
ConvertTerminates == <>(outcome \in {"returned", "error"})

====
